---- MODULE Spec2Model ----
(***************************************************************************)
(* A model of the Kyber KEM (kem.go), its IND-CPA layer (indcpa.go) and   *)
(* the UAKE/AKE key exchanges (kex.go).                                   *)
(*                                                                         *)
(* Byte strings are modelled by what the code does to them: they are made *)
(* by append/copy and taken apart by slice expressions.  A byte string is *)
(* a sequence of segments <<v, off, len>>, "bytes off .. off+len-1 of the *)
(* value v".  The values are symbolic: the output of a sponge on a given  *)
(* input, a read of the caller's random source, the packing of a          *)
(* polynomial vector computed from given seeds.  Two byte strings are     *)
(* equal exactly when their segment sequences are equal, so SHA3-256,     *)
(* SHA3-512 and SHAKE-256 are collision free and a random read is never   *)
(* the digest of something.                                                *)
(*                                                                         *)
(* The modular reductions (reduce.go) and the compression of polynomials   *)
(* (poly.go, polyvec.go) are modelled a second time with the arithmetic of *)
(* the code, on machine words and on bytes that are numbers.               *)
(***************************************************************************)
EXTENDS Integers, Sequences, FiniteSets, TLC

(***************************************************************************)
(* Bounds of the model.                                                    *)
(***************************************************************************)
\* Number of distinct 32-byte values the caller's random source can yield.
NSeeds == 2
\* Longest random tape handed to one call (no call reads more than three
\* 32-byte blocks).
TapeLen == 3

(***************************************************************************)
(* params.go                                                               *)
(***************************************************************************)
SymSize == 32
kyberN == 256
kyberQ == 7681
polySize == 416
polyCompressedSize == 96
compressedCoeffSize == 352

\* newParameterSet that leaves no room for H(pk) in the private key.
newParameterSet_NoDigestSpace(name, k) ==
  IF k \notin {2, 3, 4} THEN [panic |-> "kyber: k must be in {2,3,4}"]
  ELSE
  LET eta == CASE k = 2 -> 5 [] k = 3 -> 4 [] k = 4 -> 3
      polyVecSize == k * polySize
      polyVecCompressedSize == k * compressedCoeffSize
      indcpaMsgSize == SymSize
      indcpaPublicKeySize == polyVecCompressedSize + SymSize
      indcpaSecretKeySize == polyVecSize
      indcpaSize == polyVecCompressedSize + polyCompressedSize
  IN [ name |-> name, k |-> k, eta |-> eta,
       polyVecSize |-> polyVecSize,
       polyVecCompressedSize |-> polyVecCompressedSize,
       indcpaMsgSize |-> indcpaMsgSize,
       indcpaPublicKeySize |-> indcpaPublicKeySize,
       indcpaSecretKeySize |-> indcpaSecretKeySize,
       indcpaSize |-> indcpaSize,
       publicKeySize |-> indcpaPublicKeySize,
       secretKeySize |-> indcpaSecretKeySize + indcpaPublicKeySize + SymSize,
       cipherTextSize |-> indcpaSize ]

\* newParameterSet; a k outside {2, 3, 4} panics.
newParameterSet(name, k) ==
  IF k \notin {2, 3, 4} THEN [panic |-> "kyber: k must be in {2,3,4}"]
  ELSE
  LET eta == CASE k = 2 -> 5 [] k = 3 -> 4 [] k = 4 -> 3
      polyVecSize == k * polySize
      polyVecCompressedSize == k * compressedCoeffSize
      indcpaMsgSize == SymSize
      indcpaPublicKeySize == polyVecCompressedSize + SymSize
      indcpaSecretKeySize == polyVecSize
      indcpaSize == polyVecCompressedSize + polyCompressedSize
  IN [ name |-> name, k |-> k, eta |-> eta,
       polyVecSize |-> polyVecSize,
       polyVecCompressedSize |-> polyVecCompressedSize,
       indcpaMsgSize |-> indcpaMsgSize,
       indcpaPublicKeySize |-> indcpaPublicKeySize,
       indcpaSecretKeySize |-> indcpaSecretKeySize,
       indcpaSize |-> indcpaSize,
       publicKeySize |-> indcpaPublicKeySize,
       secretKeySize |-> indcpaSecretKeySize + indcpaPublicKeySize + 2 * SymSize,
       cipherTextSize |-> indcpaSize ]

Kyber512 == newParameterSet("Kyber-512", 2)
Kyber768 == newParameterSet("Kyber-768", 3)
Kyber1024 == newParameterSet("Kyber-1024", 4)
allParams == {Kyber512, Kyber768, Kyber1024}

PublicKeySize(p) == p.publicKeySize
PrivateKeySize(p) == p.secretKeySize
CipherTextSize(p) == p.cipherTextSize

(***************************************************************************)
(* Byte strings: len(), slice expressions, append.                         *)
(***************************************************************************)
\* The n-byte value v as a byte string.
Whole(v, n) == << <<v, 0, n>> >>

\* len(b)
RECURSIVE BLen(_)
BLen(b) == IF Len(b) = 0 THEN 0 ELSE b[1][3] + BLen(Tail(b))

\* b[lo:hi]
RECURSIVE Slice(_, _, _)
Slice(b, lo, hi) ==
  IF Len(b) = 0 \/ hi <= lo THEN << >>
  ELSE LET s == b[1]
           n == s[3]
       IN IF lo >= n THEN Slice(Tail(b), lo - n, hi - n)
          ELSE LET e == IF hi < n THEN hi ELSE n
               IN << <<s[1], s[2] + lo, e - lo>> >> \o Slice(Tail(b), 0, hi - n)

\* append(a, b...): adjacent pieces of one value are the same bytes as the
\* piece that spans them.
Append2(a, b) ==
  IF Len(a) = 0 THEN b
  ELSE IF Len(b) = 0 THEN a
  ELSE LET x == a[Len(a)]
           y == b[1]
       IN IF x[1] = y[1] /\ x[2] + x[3] = y[2]
          THEN SubSeq(a, 1, Len(a) - 1) \o << <<x[1], x[2], x[3] + y[3]>> >> \o Tail(b)
          ELSE a \o b

\* bytes.Equal / subtle.ConstantTimeCompare: 1 when equal, 0 otherwise.
ConstantTimeCompare(x, y) == IF x = y THEN 1 ELSE 0
\* subtle.ConstantTimeSelect: x when v = 1, y when v = 0.
ConstantTimeSelect(v, x, y) == IF v = 1 THEN x ELSE y
\* subtle.ConstantTimeCopy(v, x, y): the new contents of x.
ConstantTimeCopy(v, x, y) == IF v = 1 THEN y ELSE x

(***************************************************************************)
(* The sponges (golang.org/x/crypto/sha3), as injective constructors.      *)
(***************************************************************************)
SHA3_256(x) == Whole(<<"SHA3-256", x>>, 32)
SHA3_512(x) == Whole(<<"SHA3-512", x>>, 64)
\* SHAKE-256 absorbing x, first n bytes squeezed.
SHAKE256(x, n) == Whole(<<"SHAKE-256", x>>, n)

(***************************************************************************)
(* The caller's random source: a tape of 32-byte blocks, read from the     *)
(* front by io.ReadFull.  A tape that runs out makes the read fail.        *)
(***************************************************************************)
Tape(s, n) == [i \in 1..n |-> (s + i - 1) % NSeeds]
\* Full tapes from every start value, and the tapes that run out early.
Tapes == {Tape(s, TapeLen) : s \in 0..(NSeeds - 1)} \cup {Tape(0, n) : n \in 0..(TapeLen - 1)}
ReadFull(rng) ==
  IF Len(rng) = 0 THEN [err |-> "EOF", buf |-> << >>, rng |-> rng]
  ELSE [err |-> "nil", buf |-> Whole(<<"rng", Head(rng)>>, SymSize), rng |-> Tail(rng)]

(***************************************************************************)
(* Polynomial vectors and their encodings (poly.go, polyvec.go).           *)
(* A vector is the symbolic value of the computation that produced it.     *)
(* toBytes/fromBytes are exact inverses; compress is lossy, so a           *)
(* decompressed vector is a function of the compressed bytes only.         *)
(***************************************************************************)
IsWhole(b, tag, n) ==
  /\ Len(b) = 1
  /\ b[1][2] = 0
  /\ b[1][3] = n
  /\ b[1][1][1] = tag
Arg(b) == b[1][1][2]

\* polyVec.toBytes into a buffer of n bytes
toBytes(v, n) == Whole(<<"pack", v>>, n)
\* polyVec.fromBytes
fromBytes(a, n) == IF IsWhole(a, "pack", n) THEN Arg(a) ELSE <<"unpack", a>>
\* polyVec.compress / poly.compress into a buffer of n bytes
compress(v, n) == Whole(<<"compress", v>>, n)
\* polyVec.decompress / poly.decompress
decompress(a) == <<"decompress", a>>

(***************************************************************************)
(* A byte of a buffer overwritten by the caller: b[pos] ^= mask.  `within` *)
(* says whether the change stays inside the error-correction budget of     *)
(* the decoder (compression is lossy by design), so that the buffer still  *)
(* decodes like the original.                                              *)
(***************************************************************************)
XorByte(b, pos, within) ==
  IF pos < 0 \/ pos >= BLen(b) THEN b
  ELSE Append2(Append2(Slice(b, 0, pos),
                       Whole(<<"xor", within, Slice(b, pos, pos + 1)[1]>>, 1)),
               Slice(b, pos + 1, BLen(b)))

\* The buffer with every change that is within the budget undone.
RECURSIVE Nearest(_)
Nearest(c) ==
  IF Len(c) = 0 THEN << >>
  ELSE LET s == c[1]
           o == IF s[1][1] = "xor" /\ s[1][2] THEN s[1][3] ELSE s
       IN Append2(<<o>>, Nearest(Tail(c)))

(***************************************************************************)
(* indcpa.go                                                               *)
(***************************************************************************)
packPublicKey(p, pk, seed) ==
  Append2(compress(pk, p.polyVecCompressedSize), Slice(seed, 0, SymSize))

unpackPublicKey(p, packedPk) ==
  [ pk |-> decompress(Slice(packedPk, 0, p.polyVecCompressedSize)),
    seed |-> Slice(packedPk, p.polyVecCompressedSize, p.polyVecCompressedSize + SymSize) ]

packCiphertext(p, b, v) ==
  Append2(compress(b, p.polyVecCompressedSize), compress(v, polyCompressedSize))

unpackCiphertext(p, c) ==
  [ b |-> Slice(c, 0, p.polyVecCompressedSize),
    v |-> Slice(c, p.polyVecCompressedSize, p.polyVecCompressedSize + polyCompressedSize) ]

packSecretKey(p, sk) == toBytes(sk, p.polyVecSize)

unpackSecretKey(p, packedSk) == fromBytes(packedSk, p.polyVecSize)

indcpaPublicKey_toBytes(pk) == pk.packed

indcpaPublicKey_fromBytes(p, b) ==
  IF BLen(b) # p.indcpaPublicKeySize THEN [err |-> "ErrInvalidKeySize"]
  ELSE [err |-> "nil", pk |-> [packed |-> b, h |-> SHA3_256(b)]]

indcpaSecretKey_fromBytes(p, b) ==
  IF BLen(b) # p.indcpaSecretKeySize THEN [err |-> "ErrInvalidKeySize"]
  ELSE [err |-> "nil", sk |-> [packed |-> b]]

\* The secret vector (in NTT domain) is a function of the noise seed; the
\* public vector t = A s + e one of the public seed (A) and the noise seed.
indcpaKeyPair(p, rng) ==
  LET r == ReadFull(rng)
  IN IF r.err # "nil" THEN [err |-> r.err, rng |-> r.rng]
     ELSE LET buf == SHA3_512(r.buf)
              publicSeed == Slice(buf, 0, SymSize)
              noiseSeed == Slice(buf, SymSize, 2 * SymSize)
              skpv == <<"skpv", p.k, p.eta, noiseSeed>>
              pkpv == <<"pkpv", p.k, p.eta, publicSeed, noiseSeed>>
              packed == packPublicKey(p, pkpv, publicSeed)
          IN [ err |-> "nil", rng |-> r.rng,
               pk |-> [packed |-> packed, h |-> SHA3_256(packed)],
               sk |-> [packed |-> packSecretKey(p, skpv)] ]

\* b = A^T r + e1 is a function of the matrix seed and the coins;
\* v = <t, r> + e2 + fromMsg(m) one of t, the coins and the message.
indcpaEncrypt(p, m, pk, coins) ==
  LET u == unpackPublicKey(p, pk.packed)
      bp == <<"bp", p.k, p.eta, u.seed, coins>>
      v == <<"v", p.k, p.eta, u.pk, coins, Slice(m, 0, SymSize)>>
  IN packCiphertext(p, bp, v)

\* toMsg(s.b - v).  The decoder recovers m from a ciphertext made by
\* indcpaEncrypt for the public key that belongs to s (IND-CPA correctness,
\* taken as given), also when the received bytes are within the error
\* budget of such a ciphertext; any other input decodes to a message that
\* is a function of the secret key and the received bytes.
indcpaDecrypt(p, c, sk) ==
  LET u == unpackCiphertext(p, Nearest(c))
      s == unpackSecretKey(p, sk.packed)
      shaped == /\ s[1] = "skpv"
                /\ IsWhole(u.b, "compress", p.polyVecCompressedSize)
                /\ Arg(u.b)[1] = "bp"
                /\ IsWhole(u.v, "compress", polyCompressedSize)
                /\ Arg(u.v)[1] = "v"
      bp == Arg(u.b)
      v == Arg(u.v)
      t == <<"pkpv", s[2], s[3], bp[4], s[4]>>
      honest == /\ shaped
                /\ s[2] = p.k /\ bp[2] = p.k /\ v[2] = p.k
                /\ v[5] = bp[5]
                /\ v[4] = decompress(compress(t, p.polyVecCompressedSize))
  IN IF honest THEN v[6] ELSE Whole(<<"toMsg", sk.packed, c>>, SymSize)

(***************************************************************************)
(* kem.go                                                                  *)
(***************************************************************************)
\* PrivateKey.Bytes that writes z before the digest of the public key.
PrivateKey_Bytes_ZFirst(sk) ==
  Append2(Append2(Append2(sk.sk.packed, sk.PublicKey.pk.packed),
                  sk.z),
          sk.PublicKey.pk.h)

\* PrivateKey.Bytes
PrivateKey_Bytes(sk) ==
  Append2(Append2(Append2(sk.sk.packed, sk.PublicKey.pk.packed),
                  sk.PublicKey.pk.h),
          sk.z)

\* PrivateKeyFromBytes that does not compare the embedded digest.
PrivateKeyFromBytes_NoHashCheck(p, b) ==
  IF BLen(b) # p.secretKeySize THEN [err |-> "ErrInvalidKeySize"]
  ELSE LET off0 == p.indcpaSecretKeySize
           pub == indcpaPublicKey_fromBytes(p, Slice(b, off0, off0 + p.publicKeySize))
           off1 == off0 + p.publicKeySize
           off2 == off1 + SymSize
           z == Slice(b, off2, BLen(b))
           sec == indcpaSecretKey_fromBytes(p, Slice(b, 0, p.indcpaSecretKeySize))
       IN IF pub.err # "nil" THEN [err |-> pub.err]
          ELSE IF sec.err # "nil" THEN [err |-> sec.err]
          ELSE [ err |-> "nil",
                 key |-> [ PublicKey |-> [pk |-> pub.pk, p |-> p],
                           sk |-> sec.sk,
                           z |-> Slice(z, 0, SymSize) ] ]

\* PrivateKeyFromBytes that compares the embedded digest before it looks at
\* the length of the buffer.
PrivateKeyFromBytes_HashFirst(p, b) ==
  LET off0 == p.indcpaSecretKeySize
      pub == indcpaPublicKey_fromBytes(p, Slice(b, off0, off0 + p.publicKeySize))
      off1 == off0 + p.publicKeySize
      off2 == off1 + SymSize
      z == Slice(b, off2, BLen(b))
      sec == indcpaSecretKey_fromBytes(p, Slice(b, 0, p.indcpaSecretKeySize))
  IN IF pub.err = "nil" /\ pub.pk.h # Slice(b, off1, off1 + SymSize)
     THEN [err |-> "ErrInvalidPrivateKey"]
     ELSE IF BLen(b) # p.secretKeySize THEN [err |-> "ErrInvalidKeySize"]
     ELSE IF pub.err # "nil" THEN [err |-> pub.err]
     ELSE IF sec.err # "nil" THEN [err |-> sec.err]
     ELSE [ err |-> "nil",
            key |-> [ PublicKey |-> [pk |-> pub.pk, p |-> p],
                      sk |-> sec.sk,
                      z |-> Slice(z, 0, SymSize) ] ]

\* ParameterSet.PrivateKeyFromBytes
PrivateKeyFromBytes(p, b) ==
  IF BLen(b) # p.secretKeySize THEN [err |-> "ErrInvalidKeySize"]
  ELSE LET off0 == p.indcpaSecretKeySize
           pub == indcpaPublicKey_fromBytes(p, Slice(b, off0, off0 + p.publicKeySize))
           off1 == off0 + p.publicKeySize
           off2 == off1 + SymSize
           z == Slice(b, off2, BLen(b))
           sec == indcpaSecretKey_fromBytes(p, Slice(b, 0, p.indcpaSecretKeySize))
       IN IF pub.err # "nil" THEN [err |-> pub.err]
          ELSE IF pub.pk.h # Slice(b, off1, off1 + SymSize)
               THEN [err |-> "ErrInvalidPrivateKey"]
          ELSE IF sec.err # "nil" THEN [err |-> sec.err]
          ELSE [ err |-> "nil",
                 key |-> [ PublicKey |-> [pk |-> pub.pk, p |-> p],
                           sk |-> sec.sk,
                           z |-> Slice(z, 0, SymSize) ] ]

\* PublicKey.Bytes
PublicKey_Bytes(pk) == indcpaPublicKey_toBytes(pk.pk)

\* ParameterSet.PublicKeyFromBytes
PublicKeyFromBytes(p, b) ==
  LET r == indcpaPublicKey_fromBytes(p, b)
  IN IF r.err # "nil" THEN [err |-> r.err]
     ELSE [err |-> "nil", key |-> [pk |-> r.pk, p |-> p]]

\* GenerateKeyPair that reads z before the seed d of the IND-CPA key pair.
GenerateKeyPair_ZFirst(p, rng) ==
  LET WithKeyPair(z, kp) ==
        IF kp.err # "nil" THEN [err |-> kp.err, rng |-> kp.rng]
        ELSE [ err |-> "nil", rng |-> kp.rng,
               kp |-> [ PublicKey |-> [pk |-> kp.pk, p |-> p],
                        sk |-> kp.sk,
                        z |-> z.buf ] ]
      WithZ(z) ==
        IF z.err # "nil" THEN [err |-> z.err, rng |-> z.rng]
        ELSE WithKeyPair(z, indcpaKeyPair(p, z.rng))
  IN WithZ(ReadFull(rng))

\* ParameterSet.GenerateKeyPair: the public key is kp.PublicKey.
GenerateKeyPair(p, rng) ==
  LET WithZ(kp, z) ==
        IF z.err # "nil" THEN [err |-> z.err, rng |-> z.rng]
        ELSE [ err |-> "nil", rng |-> z.rng,
               kp |-> [ PublicKey |-> [pk |-> kp.pk, p |-> p],
                        sk |-> kp.sk,
                        z |-> z.buf ] ]
      WithKeyPair(kp) ==
        IF kp.err # "nil" THEN [err |-> kp.err, rng |-> kp.rng]
        ELSE WithZ(kp, ReadFull(kp.rng))
  IN WithKeyPair(indcpaKeyPair(p, rng))

\* KEMEncrypt that leaves the coins in kr: the copy of H(c) over kr[SymSize:]
\* is left out.
KEMEncrypt_KeepCoins(pk, rng) ==
  LET r == ReadFull(rng)
  IN IF r.err # "nil" THEN [err |-> r.err, rng |-> r.rng]
     ELSE LET buf == SHA3_256(r.buf)
              kr == SHA3_512(Append2(buf, pk.pk.h))
              cipherText == indcpaEncrypt(pk.p, buf, pk.pk, Slice(kr, SymSize, 2 * SymSize))
          IN [ err |-> "nil", rng |-> r.rng,
               cipherText |-> cipherText,
               sharedSecret |-> SHA3_256(kr) ]

\* PublicKey.KEMEncrypt
KEMEncrypt(pk, rng) ==
  LET r == ReadFull(rng)
  IN IF r.err # "nil" THEN [err |-> r.err, rng |-> r.rng]
     ELSE LET buf == SHA3_256(r.buf)
              kr == SHA3_512(Append2(buf, pk.pk.h))
              cipherText == indcpaEncrypt(pk.p, buf, pk.pk, Slice(kr, SymSize, 2 * SymSize))
              hc == SHA3_256(cipherText)
              kr2 == Append2(Slice(kr, 0, SymSize), hc)
          IN [ err |-> "nil", rng |-> r.rng,
               cipherText |-> cipherText,
               sharedSecret |-> SHA3_256(kr2) ]

\* KEMDecrypt that trusts the decoded message: it hashes the re-encryption
\* in place of the received bytes and never substitutes z.
KEMDecrypt_Trusting(sk, cipherText) ==
  LET p == sk.PublicKey.p
  IN IF BLen(cipherText) # CipherTextSize(p)
     THEN [panic |-> "ErrInvalidCipherTextSize"]
     ELSE LET m == indcpaDecrypt(p, cipherText, sk.sk)
              buf == Append2(m, sk.PublicKey.pk.h)
              kr == SHA3_512(buf)
              cmp == indcpaEncrypt(p, Slice(buf, 0, SymSize), sk.PublicKey.pk,
                                   Slice(kr, SymSize, 2 * SymSize))
              kr2 == Append2(Slice(kr, 0, SymSize), SHA3_256(cmp))
          IN [panic |-> "nil", sharedSecret |-> SHA3_256(kr2)]

\* KEMDecrypt that copies z over kr[:SymSize], the pre-key, on failure.
KEMDecrypt_OverwritePreK(sk, cipherText) ==
  LET p == sk.PublicKey.p
  IN IF BLen(cipherText) # CipherTextSize(p)
     THEN [panic |-> "ErrInvalidCipherTextSize"]
     ELSE LET m == indcpaDecrypt(p, cipherText, sk.sk)
              buf == Append2(m, sk.PublicKey.pk.h)
              kr == SHA3_512(buf)
              cmp == indcpaEncrypt(p, Slice(buf, 0, SymSize), sk.PublicKey.pk,
                                   Slice(kr, SymSize, 2 * SymSize))
              hc == SHA3_256(cipherText)
              kr2 == Append2(Slice(kr, 0, SymSize), hc)
              fail == ConstantTimeSelect(ConstantTimeCompare(cipherText, cmp), 0, 1)
              kr3 == Append2(ConstantTimeCopy(fail, Slice(kr2, 0, SymSize), sk.z),
                             Slice(kr2, SymSize, 2 * SymSize))
          IN [panic |-> "nil", sharedSecret |-> SHA3_256(kr3)]

\* KEMDecrypt that only refuses a ciphertext that is too short.
KEMDecrypt_ShortOnly(sk, cipherText) ==
  LET p == sk.PublicKey.p
  IN IF BLen(cipherText) < CipherTextSize(p)
     THEN [panic |-> "ErrInvalidCipherTextSize"]
     ELSE LET m == indcpaDecrypt(p, cipherText, sk.sk)
              buf == Append2(m, sk.PublicKey.pk.h)
              kr == SHA3_512(buf)
              cmp == indcpaEncrypt(p, Slice(buf, 0, SymSize), sk.PublicKey.pk,
                                   Slice(kr, SymSize, 2 * SymSize))
              hc == SHA3_256(cipherText)
              kr2 == Append2(Slice(kr, 0, SymSize), hc)
              fail == ConstantTimeSelect(ConstantTimeCompare(cipherText, cmp), 0, 1)
              kr3 == Append2(Slice(kr2, 0, SymSize),
                             ConstantTimeCopy(fail, Slice(kr2, SymSize, 2 * SymSize), sk.z))
          IN [panic |-> "nil", sharedSecret |-> SHA3_256(kr3)]

\* KEMDecrypt that leaves H(c) in kr[SymSize:] when re-encryption fails.
KEMDecrypt_NoRejectionCopy(sk, cipherText) ==
  LET p == sk.PublicKey.p
  IN IF BLen(cipherText) # CipherTextSize(p)
     THEN [panic |-> "ErrInvalidCipherTextSize"]
     ELSE LET m == indcpaDecrypt(p, cipherText, sk.sk)
              buf == Append2(m, sk.PublicKey.pk.h)
              kr == SHA3_512(buf)
              hc == SHA3_256(cipherText)
              kr2 == Append2(Slice(kr, 0, SymSize), hc)
          IN [panic |-> "nil", sharedSecret |-> SHA3_256(kr2)]

\* PrivateKey.KEMDecrypt
KEMDecrypt(sk, cipherText) ==
  LET p == sk.PublicKey.p
  IN IF BLen(cipherText) # CipherTextSize(p)
     THEN [panic |-> "ErrInvalidCipherTextSize"]
     ELSE LET m == indcpaDecrypt(p, cipherText, sk.sk)
              buf == Append2(m, sk.PublicKey.pk.h)
              kr == SHA3_512(buf)
              cmp == indcpaEncrypt(p, Slice(buf, 0, SymSize), sk.PublicKey.pk,
                                   Slice(kr, SymSize, 2 * SymSize))
              hc == SHA3_256(cipherText)
              kr2 == Append2(Slice(kr, 0, SymSize), hc)
              fail == ConstantTimeSelect(ConstantTimeCompare(cipherText, cmp), 0, 1)
              kr3 == Append2(Slice(kr2, 0, SymSize),
                             ConstantTimeCopy(fail, Slice(kr2, SymSize, 2 * SymSize), sk.z))
          IN [panic |-> "nil", sharedSecret |-> SHA3_256(kr3)]

(***************************************************************************)
(* kex.go                                                                  *)
(***************************************************************************)
UAKEInitiatorMessageSize(p) == PublicKeySize(p) + CipherTextSize(p)
UAKEResponderMessageSize(p) == CipherTextSize(p)
AKEInitiatorMessageSize(p) == PublicKeySize(p) + CipherTextSize(p)
AKEResponderMessageSize(p) == 2 * CipherTextSize(p)

\* UAKEInitiatorState.Shared: the secret (or the panic) and the state the
\* call leaves behind.
UAKEInitiatorState_Shared(s, recv) ==
  LET WithTk(d) ==
        IF d.panic # "nil" THEN [panic |-> d.panic, s |-> s]
        ELSE [ panic |-> "nil", s |-> s,
               sharedSecret |-> SHAKE256(Append2(d.sharedSecret, s.tk), SymSize) ]
  IN WithTk(KEMDecrypt(s.eSk, recv))

\* NewUAKEInitiatorState that puts the ciphertext before the ephemeral
\* public key in its message.
NewUAKEInitiatorState_CtFirst(pk, rng) ==
  LET WithCt(g, e) ==
        IF e.err # "nil" THEN [err |-> e.err, rng |-> e.rng]
        ELSE [ err |-> "nil", rng |-> e.rng,
               s |-> [ Message |-> Append2(e.cipherText, PublicKey_Bytes(g.kp.PublicKey)),
                       eSk |-> g.kp,
                       tk |-> e.sharedSecret ] ]
      WithESk(g) ==
        IF g.err # "nil" THEN [err |-> g.err, rng |-> g.rng]
        ELSE WithCt(g, KEMEncrypt(pk, g.rng))
  IN WithESk(GenerateKeyPair(pk.p, rng))

\* PublicKey.NewUAKEInitiatorState
NewUAKEInitiatorState(pk, rng) ==
  LET WithCt(g, e) ==
        IF e.err # "nil" THEN [err |-> e.err, rng |-> e.rng]
        ELSE [ err |-> "nil", rng |-> e.rng,
               s |-> [ Message |-> Append2(PublicKey_Bytes(g.kp.PublicKey), e.cipherText),
                       eSk |-> g.kp,
                       tk |-> e.sharedSecret ] ]
      WithESk(g) ==
        IF g.err # "nil" THEN [err |-> g.err, rng |-> g.rng]
        ELSE WithCt(g, KEMEncrypt(pk, g.rng))
  IN WithESk(GenerateKeyPair(pk.p, rng))

\* UAKEResponderShared that absorbs its two secrets in the other order.
UAKEResponderShared_Swapped(sk, rng, recv) ==
  LET p == sk.PublicKey.p
      pkLen == PublicKeySize(p)
      WithTk(e, d) ==
        IF d.panic # "nil" THEN [panic |-> d.panic, rng |-> e.rng]
        ELSE [ panic |-> "nil", rng |-> e.rng,
               message |-> e.cipherText,
               sharedSecret |->
                 SHAKE256(Append2(d.sharedSecret, e.sharedSecret), SymSize) ]
      WithCt(e, ct) ==
        IF e.err # "nil" THEN [panic |-> e.err, rng |-> e.rng]
        ELSE WithTk(e, KEMDecrypt(sk, ct))
      WithPk(pk, ct) ==
        IF pk.err # "nil" THEN [panic |-> pk.err, rng |-> rng]
        ELSE WithCt(KEMEncrypt(pk.key, rng), ct)
  IN IF BLen(recv) # UAKEInitiatorMessageSize(p)
     THEN [panic |-> "ErrInvalidMessageSize", rng |-> rng]
     ELSE WithPk(PublicKeyFromBytes(p, Slice(recv, 0, pkLen)),
                 Slice(recv, pkLen, BLen(recv)))

\* UAKEResponderShared that only refuses a message that is too short.
UAKEResponderShared_ShortOnly(sk, rng, recv) ==
  LET p == sk.PublicKey.p
      pkLen == PublicKeySize(p)
      WithTk(e, d) ==
        IF d.panic # "nil" THEN [panic |-> d.panic, rng |-> e.rng]
        ELSE [ panic |-> "nil", rng |-> e.rng,
               message |-> e.cipherText,
               sharedSecret |->
                 SHAKE256(Append2(e.sharedSecret, d.sharedSecret), SymSize) ]
      WithCt(e, ct) ==
        IF e.err # "nil" THEN [panic |-> e.err, rng |-> e.rng]
        ELSE WithTk(e, KEMDecrypt(sk, ct))
      WithPk(pk, ct) ==
        IF pk.err # "nil" THEN [panic |-> pk.err, rng |-> rng]
        ELSE WithCt(KEMEncrypt(pk.key, rng), ct)
  IN IF BLen(recv) < UAKEInitiatorMessageSize(p)
     THEN [panic |-> "ErrInvalidMessageSize", rng |-> rng]
     ELSE WithPk(PublicKeyFromBytes(p, Slice(recv, 0, pkLen)),
                 Slice(recv, pkLen, BLen(recv)))

\* PrivateKey.UAKEResponderShared
UAKEResponderShared(sk, rng, recv) ==
  LET p == sk.PublicKey.p
      pkLen == PublicKeySize(p)
      WithTk(e, d) ==
        IF d.panic # "nil" THEN [panic |-> d.panic, rng |-> e.rng]
        ELSE [ panic |-> "nil", rng |-> e.rng,
               message |-> e.cipherText,
               sharedSecret |->
                 SHAKE256(Append2(e.sharedSecret, d.sharedSecret), SymSize) ]
      WithCt(e, ct) ==
        IF e.err # "nil" THEN [panic |-> e.err, rng |-> e.rng]
        ELSE WithTk(e, KEMDecrypt(sk, ct))
      WithPk(pk, ct) ==
        IF pk.err # "nil" THEN [panic |-> pk.err, rng |-> rng]
        ELSE WithCt(KEMEncrypt(pk.key, rng), ct)
  IN IF BLen(recv) # UAKEInitiatorMessageSize(p)
     THEN [panic |-> "ErrInvalidMessageSize", rng |-> rng]
     ELSE WithPk(PublicKeyFromBytes(p, Slice(recv, 0, pkLen)),
                 Slice(recv, pkLen, BLen(recv)))

\* AKEInitiatorState.Shared that absorbs the secret of the long-term key
\* before the secret of the ephemeral key.
AKEInitiatorState_Shared_LongTermFirst(s, recv, initiatorPrivateKey) ==
  LET p == s.eSk.PublicKey.p
      ctLen == CipherTextSize(p)
      WithTk(d1, d2) ==
        IF d1.panic # "nil" THEN [panic |-> d1.panic, s |-> s]
        ELSE IF d2.panic # "nil" THEN [panic |-> d2.panic, s |-> s]
        ELSE [ panic |-> "nil", s |-> s,
               sharedSecret |->
                 SHAKE256(Append2(Append2(d2.sharedSecret, d1.sharedSecret), s.tk),
                          SymSize) ]
  IN IF initiatorPrivateKey.PublicKey.p # p
     THEN [panic |-> "ErrParameterSetMismatch", s |-> s]
     ELSE IF BLen(recv) # AKEResponderMessageSize(p)
     THEN [panic |-> "ErrInvalidMessageSize", s |-> s]
     ELSE WithTk(KEMDecrypt(s.eSk, Slice(recv, 0, ctLen)),
                 KEMDecrypt(initiatorPrivateKey, Slice(recv, ctLen, BLen(recv))))

\* AKEInitiatorState.Shared
AKEInitiatorState_Shared(s, recv, initiatorPrivateKey) ==
  LET p == s.eSk.PublicKey.p
      ctLen == CipherTextSize(p)
      WithTk(d1, d2) ==
        IF d1.panic # "nil" THEN [panic |-> d1.panic, s |-> s]
        ELSE IF d2.panic # "nil" THEN [panic |-> d2.panic, s |-> s]
        ELSE [ panic |-> "nil", s |-> s,
               sharedSecret |->
                 SHAKE256(Append2(Append2(d1.sharedSecret, d2.sharedSecret), s.tk),
                          SymSize) ]
  IN IF initiatorPrivateKey.PublicKey.p # p
     THEN [panic |-> "ErrParameterSetMismatch", s |-> s]
     ELSE IF BLen(recv) # AKEResponderMessageSize(p)
     THEN [panic |-> "ErrInvalidMessageSize", s |-> s]
     ELSE WithTk(KEMDecrypt(s.eSk, Slice(recv, 0, ctLen)),
                 KEMDecrypt(initiatorPrivateKey, Slice(recv, ctLen, BLen(recv))))

\* PublicKey.NewAKEInitiatorState
NewAKEInitiatorState(pk, rng) ==
  LET Wrap(us) ==
        IF us.err # "nil" THEN [err |-> us.err, rng |-> us.rng]
        ELSE [ err |-> "nil", rng |-> us.rng,
               s |-> [Message |-> us.s.Message, eSk |-> us.s.eSk, tk |-> us.s.tk] ]
  IN Wrap(NewUAKEInitiatorState(pk, rng))

\* AKEResponderShared that looks at the length of the message before it
\* compares the parameter sets.
AKEResponderShared_LengthFirst(sk, rng, recv, peerPublicKey) ==
  LET p == sk.PublicKey.p
      pkLen == PublicKeySize(p)
      WithTk(e1, e2, d) ==
        IF d.panic # "nil" THEN [panic |-> d.panic, rng |-> e2.rng]
        ELSE [ panic |-> "nil", rng |-> e2.rng,
               message |-> Append2(e1.cipherText, e2.cipherText),
               sharedSecret |->
                 SHAKE256(Append2(Append2(e1.sharedSecret, e2.sharedSecret),
                                  d.sharedSecret),
                          SymSize) ]
      WithCt2(e1, e2, ct) ==
        IF e2.err # "nil" THEN [panic |-> e2.err, rng |-> e2.rng]
        ELSE WithTk(e1, e2, KEMDecrypt(sk, ct))
      WithCt1(e1, ct) ==
        IF e1.err # "nil" THEN [panic |-> e1.err, rng |-> e1.rng]
        ELSE WithCt2(e1, KEMEncrypt(peerPublicKey, e1.rng), ct)
      WithPk(pk, ct) ==
        IF pk.err # "nil" THEN [panic |-> pk.err, rng |-> rng]
        ELSE WithCt1(KEMEncrypt(pk.key, rng), ct)
  IN IF BLen(recv) # AKEInitiatorMessageSize(p)
     THEN [panic |-> "ErrInvalidMessageSize", rng |-> rng]
     ELSE IF peerPublicKey.p # p
     THEN [panic |-> "ErrParameterSetMismatch", rng |-> rng]
     ELSE WithPk(PublicKeyFromBytes(p, Slice(recv, 0, pkLen)),
                 Slice(recv, pkLen, BLen(recv)))

\* PrivateKey.AKEResponderShared
AKEResponderShared(sk, rng, recv, peerPublicKey) ==
  LET p == sk.PublicKey.p
      pkLen == PublicKeySize(p)
      WithTk(e1, e2, d) ==
        IF d.panic # "nil" THEN [panic |-> d.panic, rng |-> e2.rng]
        ELSE [ panic |-> "nil", rng |-> e2.rng,
               message |-> Append2(e1.cipherText, e2.cipherText),
               sharedSecret |->
                 SHAKE256(Append2(Append2(e1.sharedSecret, e2.sharedSecret),
                                  d.sharedSecret),
                          SymSize) ]
      WithCt2(e1, e2, ct) ==
        IF e2.err # "nil" THEN [panic |-> e2.err, rng |-> e2.rng]
        ELSE WithTk(e1, e2, KEMDecrypt(sk, ct))
      WithCt1(e1, ct) ==
        IF e1.err # "nil" THEN [panic |-> e1.err, rng |-> e1.rng]
        ELSE WithCt2(e1, KEMEncrypt(peerPublicKey, e1.rng), ct)
      WithPk(pk, ct) ==
        IF pk.err # "nil" THEN [panic |-> pk.err, rng |-> rng]
        ELSE WithCt1(KEMEncrypt(pk.key, rng), ct)
  IN IF peerPublicKey.p # p
     THEN [panic |-> "ErrParameterSetMismatch", rng |-> rng]
     ELSE IF BLen(recv) # AKEInitiatorMessageSize(p)
     THEN [panic |-> "ErrInvalidMessageSize", rng |-> rng]
     ELSE WithPk(PublicKeyFromBytes(p, Slice(recv, 0, pkLen)),
                 Slice(recv, pkLen, BLen(recv)))

(***************************************************************************)
(* The callers.  The library keeps no state of its own: the state is what  *)
(* its callers hold.  Role "A" and role "B" each own at most one long-term *)
(* key pair; `enc` is the last encapsulation, `sess` the initiator state   *)
(* of the exchange in progress, `resp` what the responder answered, and    *)
(* `ret` what the last call was given and what it returned.                *)
(***************************************************************************)
VARIABLES keys, enc, sess, resp, ret
vars == <<keys, enc, sess, resp, ret>>

Roles == {"A", "B"}

\* Bytes that come from nowhere (a zeroed or unrelated buffer of n bytes).
Junk(n) == Whole(<<"junk", 0>>, n)

\* What may arrive in place of the buffer b: b itself, b one byte short, b
\* one byte long, an unrelated buffer of the same length, or b with the byte
\* at one of the positions P overwritten.
Received(b, P, W) ==
  {b, Slice(b, 0, BLen(b) - 1), Append2(b, Junk(1)), Junk(BLen(b))}
    \cup {XorByte(b, pos, w) : pos \in P, w \in W}

Init ==
  /\ keys = [r \in Roles |-> << >>]
  /\ enc = << >>
  /\ sess = << >>
  /\ resp = << >>
  /\ ret = [op |-> "none"]

\* What a GenerateKeyPair call leaves in `keys` and `ret`.
Generated(r, p, rng, g) ==
  /\ keys' = IF g.err = "nil" THEN [keys EXCEPT ![r] = <<g.kp>>] ELSE keys
  /\ ret' = [ op |-> "GenerateKeyPair", p |-> p.name, err |-> g.err,
              reads |-> Len(rng) - Len(g.rng) ]

\* p.GenerateKeyPair(rng), by a role that has no key pair yet.
CallGenerateKeyPair ==
  \E r \in Roles, p \in allParams, rng \in Tapes :
    /\ Len(keys[r]) = 0
    /\ Generated(r, p, rng, GenerateKeyPair(p, rng))
    /\ UNCHANGED <<enc, sess, resp>>

\* What a KEMEncrypt call leaves in `enc` and `ret`.
Encrypted(r, rng, e) ==
  /\ enc' = IF e.err = "nil"
            THEN << [ to |-> r, cipherText |-> e.cipherText,
                      sharedSecret |-> e.sharedSecret ] >>
            ELSE enc
  /\ ret' = [ op |-> "KEMEncrypt", to |-> r, err |-> e.err,
              reads |-> Len(rng) - Len(e.rng) ]

\* keys[r].PublicKey.KEMEncrypt(rng)
CallKEMEncrypt ==
  \E r \in Roles, rng \in Tapes :
    /\ Len(keys[r]) = 1
    /\ Encrypted(r, rng, KEMEncrypt(keys[r][1].PublicKey, rng))
    /\ UNCHANGED <<keys, sess, resp>>

\* What a KEMDecrypt call leaves in `ret`.
Decrypted(r, c, d) ==
  ret' = IF d.panic = "nil"
         THEN [ op |-> "KEMDecrypt", key |-> r, cipherText |-> c,
                panic |-> "nil", sharedSecret |-> d.sharedSecret ]
         ELSE [ op |-> "KEMDecrypt", key |-> r, cipherText |-> c,
                panic |-> d.panic ]

\* keys[r].KEMDecrypt(c), c being what arrived of the last ciphertext.
CallKEMDecrypt ==
  \E r \in Roles :
    /\ Len(keys[r]) = 1
    /\ Len(enc) = 1
    /\ \E c \in Received(enc[1].cipherText, {0, BLen(enc[1].cipherText) - 1}, BOOLEAN) :
         Decrypted(r, c, KEMDecrypt(keys[r][1], c))
    /\ UNCHANGED <<keys, enc, sess, resp>>

\* What may arrive in place of a serialised key of parameter set q, and the
\* parameter set it is deserialised with: any change of the buffer under q
\* itself, the unchanged buffer under another parameter set.
KeyBuffers(q, bufs, ser) ==
  {<<q, b>> : b \in bufs} \cup {<<p, ser>> : p \in allParams \ {q}}

\* What a *FromBytes call leaves in `ret`: a nil key is the empty sequence.
Loaded(op, r, p, b, f) ==
  ret' = [ op |-> op, of |-> r, p |-> p, b |-> b, err |-> f.err,
           key |-> IF f.err = "nil" THEN <<f.key>> ELSE << >> ]

\* p.PrivateKeyFromBytes(b), b being what arrived of keys[r].Bytes().
CallPrivateKeyFromBytes ==
  \E r \in Roles :
    /\ Len(keys[r]) = 1
    /\ LET k == keys[r][1]
           q == k.PublicKey.p
           ser == PrivateKey_Bytes(k)
           hashAt == q.indcpaSecretKeySize + q.publicKeySize
           bufs == Received(ser, {0, q.indcpaSecretKeySize, hashAt, hashAt + SymSize},
                            {FALSE})
                     \cup {Slice(XorByte(ser, hashAt, FALSE), 0, BLen(ser) - 1)}
       IN \E pb \in KeyBuffers(q, bufs, ser) :
            Loaded("PrivateKeyFromBytes", r, pb[1], pb[2],
                   PrivateKeyFromBytes(pb[1], pb[2]))
    /\ UNCHANGED <<keys, enc, sess, resp>>

\* p.PublicKeyFromBytes(b), b being what arrived of keys[r].PublicKey.Bytes().
CallPublicKeyFromBytes ==
  \E r \in Roles :
    /\ Len(keys[r]) = 1
    /\ LET q == keys[r][1].PublicKey.p
           ser == PublicKey_Bytes(keys[r][1].PublicKey)
           bufs == Received(ser, {0, BLen(ser) - 1}, {FALSE})
       IN \E pb \in KeyBuffers(q, bufs, ser) :
            Loaded("PublicKeyFromBytes", r, pb[1], pb[2],
                   PublicKeyFromBytes(pb[1], pb[2]))
    /\ UNCHANGED <<keys, enc, sess, resp>>

(***************************************************************************)
(* The key exchanges.  Role "B" is the responder, whose long-term public   *)
(* key the initiator (role "A") holds; in AKE the initiator's long-term    *)
(* key pair is keys["A"] and the responder holds its public half.          *)
(***************************************************************************)
\* What may arrive in place of the message b (no unrelated buffer here).
Delivered(b, P) == Received(b, P, {FALSE}) \ {Junk(BLen(b))}

\* What a New*InitiatorState call leaves in `sess` and `ret`.
Created(kind, rng, n) ==
  /\ sess' = IF n.err = "nil" THEN << [kind |-> kind, s |-> n.s] >> ELSE sess
  /\ ret' = [ op |-> "New" \o kind \o "InitiatorState", err |-> n.err,
              reads |-> Len(rng) - Len(n.rng) ]

\* keys["B"].PublicKey.NewUAKEInitiatorState(rng), by an initiator that has
\* no exchange in progress.
CallNewUAKEInitiatorState ==
  \E rng \in Tapes :
    /\ Len(sess) = 0
    /\ Len(keys["B"]) = 1
    /\ Created("UAKE", rng, NewUAKEInitiatorState(keys["B"][1].PublicKey, rng))
    /\ UNCHANGED <<keys, enc, resp>>

\* keys["B"].PublicKey.NewAKEInitiatorState(rng), by an initiator that has
\* no exchange in progress.
CallNewAKEInitiatorState ==
  \E rng \in Tapes :
    /\ Len(sess) = 0
    /\ Len(keys["B"]) = 1
    /\ Created("AKE", rng, NewAKEInitiatorState(keys["B"][1].PublicKey, rng))
    /\ UNCHANGED <<keys, enc, resp>>

\* The random tape and the message a responder call is given: any tape with
\* the message as it was sent, a full tape with whatever arrived of it.
Calls(msg, P) ==
  {<<rng, msg>> : rng \in Tapes}
    \cup {<<rng, recv>> : rng \in {t \in Tapes : Len(t) = TapeLen}, recv \in Delivered(msg, P)}

\* What a responder call leaves in `resp` (its message and its secret, when
\* it did not panic) and `ret`.
Responded(op, recv, rng, r) ==
  /\ resp' = IF r.panic = "nil"
             THEN << [ recv |-> recv, message |-> r.message,
                       sharedSecret |-> r.sharedSecret ] >>
             ELSE resp
  /\ ret' = [ op |-> op, recv |-> recv, panic |-> r.panic,
              reads |-> Len(rng) - Len(r.rng) ]

\* keys["B"].UAKEResponderShared(rng, recv), recv being what arrived of the
\* initiator's message, by a responder that has not answered yet.
CallUAKEResponderShared ==
  /\ Len(sess) = 1
  /\ Len(resp) = 0
  /\ sess[1].kind = "UAKE"
  /\ Len(keys["B"]) = 1
  /\ LET msg == sess[1].s.Message
         pkLen == PublicKeySize(sess[1].s.eSk.PublicKey.p)
     IN \E c \in Calls(msg, {0, pkLen}) :
          Responded("UAKEResponderShared", c[2], c[1],
                    UAKEResponderShared(keys["B"][1], c[1], c[2]))
  /\ UNCHANGED <<keys, enc, sess>>

\* keys["B"].AKEResponderShared(rng, recv, keys["A"].PublicKey)
CallAKEResponderShared ==
  /\ Len(sess) = 1
  /\ Len(resp) = 0
  /\ sess[1].kind = "AKE"
  /\ Len(keys["B"]) = 1
  /\ Len(keys["A"]) = 1
  /\ LET msg == sess[1].s.Message
         pkLen == PublicKeySize(sess[1].s.eSk.PublicKey.p)
     IN \E c \in Calls(msg, {0, pkLen}) :
          Responded("AKEResponderShared", c[2], c[1],
                    AKEResponderShared(keys["B"][1], c[1], c[2], keys["A"][1].PublicKey))
  /\ UNCHANGED <<keys, enc, sess>>

\* What arrives at the initiator: what became of the responder's message, or
\* a buffer of n bytes (or one byte less) when the responder never answered.
Answered(n, P) ==
  IF Len(resp) = 1 THEN Delivered(resp[1].message, P) ELSE {Junk(n), Junk(n - 1)}

\* What a Shared call, made with the long-term key of role k, leaves in
\* `sess` and `ret`.
Shared(op, k, recv, r) ==
  /\ sess' = << [kind |-> sess[1].kind, s |-> r.s] >>
  /\ ret' = IF r.panic = "nil"
            THEN [ op |-> op, key |-> k, recv |-> recv, panic |-> "nil",
                   sharedSecret |-> r.sharedSecret ]
            ELSE [ op |-> op, key |-> k, recv |-> recv, panic |-> r.panic ]

\* sess.Shared(recv) of a UAKE initiator state
CallUAKEInitiatorState_Shared ==
  /\ Len(sess) = 1
  /\ sess[1].kind = "UAKE"
  /\ \E recv \in Answered(UAKEResponderMessageSize(sess[1].s.eSk.PublicKey.p), {0}) :
       Shared("UAKEInitiatorState.Shared", "A", recv,
              UAKEInitiatorState_Shared(sess[1].s, recv))
  /\ UNCHANGED <<keys, enc, resp>>

\* sess.Shared(recv, keys[k]) of an AKE initiator state: with the
\* initiator's long-term key, or with a key that is not the one the responder
\* was given the public half of.
CallAKEInitiatorState_Shared ==
  /\ Len(sess) = 1
  /\ sess[1].kind = "AKE"
  /\ LET p == sess[1].s.eSk.PublicKey.p
     IN \E k \in Roles :
          /\ Len(keys[k]) = 1
          /\ \E recv \in Answered(AKEResponderMessageSize(p), {0, CipherTextSize(p)}) :
               Shared("AKEInitiatorState.Shared", k, recv,
                      AKEInitiatorState_Shared(sess[1].s, recv, keys[k][1]))
  /\ UNCHANGED <<keys, enc, resp>>

(***************************************************************************)
(* The KEM: key generation, encapsulation, decapsulation.                  *)
(***************************************************************************)
Next ==
  \/ CallGenerateKeyPair
  \/ CallKEMEncrypt
  \/ CallKEMDecrypt

Spec == Init /\ [][Next]_vars

(***************************************************************************)
(* Key serialisation: key generation, Bytes and *FromBytes.                *)
(***************************************************************************)
NextKeys ==
  \/ CallGenerateKeyPair
  \/ CallPrivateKeyFromBytes
  \/ CallPublicKeyFromBytes

SpecKeys == Init /\ [][NextKeys]_vars

(***************************************************************************)
(* Keys and the buffers of their callers.  A Go slice is a view of an      *)
(* array: PublicKey.Bytes returns pk.packed itself (indcpaPublicKey        *)
(* toBytes), so the caller's slice and the key share their bytes, while    *)
(* PrivateKey.Bytes appends to a new array and fromBytes copies out of the *)
(* buffer it is given.                                                     *)
(***************************************************************************)
\* Whether the slice the operation op hands out or was handed is the array
\* of the key's packed public key.
SharesPacked(op) ==
  CASE op = "PublicKey.Bytes" -> TRUE
    [] op = "PrivateKey.Bytes" -> FALSE
    [] op = "PublicKeyFromBytes" -> FALSE
    [] op = "PrivateKeyFromBytes" -> FALSE

\* keys[r].PublicKey.Bytes()
CallPublicKey_Bytes ==
  \E r \in Roles :
    /\ Len(keys[r]) = 1
    /\ ret' = [ op |-> "PublicKey.Bytes", of |-> r,
                b |-> PublicKey_Bytes(keys[r][1].PublicKey) ]
    /\ UNCHANGED <<keys, enc, sess, resp>>

\* keys[r].Bytes()
CallPrivateKey_Bytes ==
  \E r \in Roles :
    /\ Len(keys[r]) = 1
    /\ ret' = [ op |-> "PrivateKey.Bytes", of |-> r,
                b |-> PrivateKey_Bytes(keys[r][1]) ]
    /\ UNCHANGED <<keys, enc, sess, resp>>

\* The caller overwrites the first byte of the slice it got from Bytes() or
\* of the buffer a key was loaded from, once: b[0] ^= mask.  The bytes of a
\* key that shares the array change with it.
CallerOverwrites ==
  /\ ret.op \in {"PublicKey.Bytes", "PrivateKey.Bytes",
                 "PublicKeyFromBytes", "PrivateKeyFromBytes"}
  /\ ret.op \in {"PublicKeyFromBytes", "PrivateKeyFromBytes"} => ret.err = "nil"
  /\ ret.b[1][1][1] # "xor"
  /\ LET b == XorByte(ret.b, 0, FALSE)
     IN /\ ret' = [op |-> "overwrite", of |-> ret.of, b |-> b, buffer |-> ret]
        /\ keys' = IF SharesPacked(ret.op)
                   THEN [keys EXCEPT ![ret.of][1].PublicKey.pk.packed = b]
                   ELSE keys
  /\ UNCHANGED <<enc, sess, resp>>

NextBuffers ==
  \/ CallGenerateKeyPair
  \/ CallPublicKey_Bytes
  \/ CallPrivateKey_Bytes
  \/ CallPrivateKeyFromBytes
  \/ CallPublicKeyFromBytes
  \/ CallerOverwrites

SpecBuffers == Init /\ [][NextBuffers]_vars

(***************************************************************************)
(* The key exchanges: key generation, UAKE and AKE.                        *)
(***************************************************************************)
NextKEX ==
  \/ CallGenerateKeyPair
  \/ CallNewUAKEInitiatorState
  \/ CallUAKEResponderShared
  \/ CallUAKEInitiatorState_Shared
  \/ CallNewAKEInitiatorState
  \/ CallAKEResponderShared
  \/ CallAKEInitiatorState_Shared

SpecKEX == Init /\ [][NextKEX]_vars

(***************************************************************************)
(* The caller's random source.  Every call that is handed a reader gets a  *)
(* tape and leaves in `ret` the tape it was given and what is left of it;  *)
(* a call that is handed no reader leaves the caller's tape where the call *)
(* before it left it.                                                      *)
(***************************************************************************)
\* What a call leaves in `ret`: rng is the caller's tape before the call,
\* rest the tape after it.
Drew(op, r, rng, rest, err) ==
  ret' = [op |-> op, of |-> r, rng |-> rng, rest |-> rest, err |-> err]

\* p.GenerateKeyPair(rng)
ReadsGenerateKeyPair ==
  \E r \in Roles, p \in allParams, rng \in Tapes :
    /\ Len(keys[r]) = 0
    /\ LET g == GenerateKeyPair(p, rng)
       IN /\ keys' = IF g.err = "nil" THEN [keys EXCEPT ![r] = <<g.kp>>] ELSE keys
          /\ Drew("GenerateKeyPair", r, rng, g.rng, g.err)
    /\ UNCHANGED <<enc, sess, resp>>

\* keys[r].PublicKey.KEMEncrypt(rng)
ReadsKEMEncrypt ==
  \E r \in Roles, rng \in Tapes :
    /\ Len(keys[r]) = 1
    /\ Len(enc) = 0
    /\ LET e == KEMEncrypt(keys[r][1].PublicKey, rng)
       IN /\ enc' = IF e.err = "nil"
                    THEN << [ to |-> r, cipherText |-> e.cipherText,
                              sharedSecret |-> e.sharedSecret ] >>
                    ELSE enc
          /\ Drew("KEMEncrypt", r, rng, e.rng, e.err)
    /\ UNCHANGED <<keys, sess, resp>>

\* keys[r].KEMDecrypt(c): the call is handed no reader.
ReadsKEMDecrypt ==
  \E r \in Roles :
    /\ Len(keys[r]) = 1
    /\ Len(enc) = 1
    /\ \E c \in {enc[1].cipherText, Junk(BLen(enc[1].cipherText)),
                 Slice(enc[1].cipherText, 0, BLen(enc[1].cipherText) - 1)} :
         Drew("KEMDecrypt", r, ret.rest, ret.rest, KEMDecrypt(keys[r][1], c).panic)
    /\ UNCHANGED <<keys, enc, sess, resp>>

\* keys["B"].PublicKey.New<kind>InitiatorState(rng)
ReadsNewInitiatorState(kind, rng, n) ==
  /\ sess' = IF n.err = "nil" THEN << [kind |-> kind, s |-> n.s] >> ELSE sess
  /\ Drew("New" \o kind \o "InitiatorState", "B", rng, n.rng, n.err)
  /\ UNCHANGED <<keys, enc, resp>>

ReadsNewUAKEInitiatorState ==
  \E rng \in Tapes :
    /\ Len(sess) = 0
    /\ Len(keys["B"]) = 1
    /\ ReadsNewInitiatorState("UAKE", rng,
                              NewUAKEInitiatorState(keys["B"][1].PublicKey, rng))

ReadsNewAKEInitiatorState ==
  \E rng \in Tapes :
    /\ Len(sess) = 0
    /\ Len(keys["B"]) = 1
    /\ ReadsNewInitiatorState("AKE", rng,
                              NewAKEInitiatorState(keys["B"][1].PublicKey, rng))

\* sess.Shared(recv) and sess.Shared(recv, keys["A"]), recv being a buffer
\* of the right length or one byte short: the calls are handed no reader.
ReadsInitiatorShared ==
  /\ Len(sess) = 1
  /\ LET p == sess[1].s.eSk.PublicKey.p
     IN IF sess[1].kind = "UAKE"
        THEN \E recv \in {Junk(UAKEResponderMessageSize(p)),
                          Junk(UAKEResponderMessageSize(p) - 1)} :
               Drew("UAKEInitiatorState.Shared", "A", ret.rest, ret.rest,
                    UAKEInitiatorState_Shared(sess[1].s, recv).panic)
        ELSE /\ Len(keys["A"]) = 1
             /\ \E recv \in {Junk(AKEResponderMessageSize(p)),
                             Junk(AKEResponderMessageSize(p) - 1)} :
                  Drew("AKEInitiatorState.Shared", "A", ret.rest, ret.rest,
                       AKEInitiatorState_Shared(sess[1].s, recv, keys["A"][1]).panic)
  /\ UNCHANGED <<keys, enc, sess, resp>>

NextRNG ==
  \/ ReadsGenerateKeyPair
  \/ ReadsKEMEncrypt
  \/ ReadsKEMDecrypt
  \/ ReadsNewUAKEInitiatorState
  \/ ReadsNewAKEInitiatorState
  \/ ReadsInitiatorShared

SpecRNG == Init /\ [][NextRNG]_vars

(***************************************************************************)
(* Machine arithmetic.  A uint16 is a number in 0 .. 2^16-1, a byte one in *)
(* 0 .. 255.  A uint32 is the pair <<hi, lo>> of its 16-bit halves, so     *)
(* that no intermediate value leaves the range of the checker's integers.  *)
(***************************************************************************)
RECURSIVE BitAnd(_, _)
BitAnd(x, y) ==
  IF x = 0 \/ y = 0 THEN 0
  ELSE (x % 2) * (y % 2) + 2 * BitAnd(x \div 2, y \div 2)

RECURSIVE BitOr(_, _)
BitOr(x, y) ==
  IF x = 0 THEN y
  ELSE IF y = 0 THEN x
  ELSE (IF x % 2 = 1 \/ y % 2 = 1 THEN 1 ELSE 0) + 2 * BitOr(x \div 2, y \div 2)

RECURSIVE BitXor(_, _)
BitXor(x, y) ==
  IF x = 0 THEN y
  ELSE IF y = 0 THEN x
  ELSE (IF x % 2 = y % 2 THEN 0 ELSE 1) + 2 * BitXor(x \div 2, y \div 2)

\* x << n and x >> n in a w-bit unsigned type: the bits of x above bit
\* w-n-1 are shifted out (there are none when w - n > 30).
Shl(x, n, w) == IF w - n > 30 THEN x * 2^n ELSE (x % 2^(w - n)) * 2^n
Shr(x, n) == x \div 2^n

\* uint32 arithmetic modulo 2^32: a * c for a constant c below 2^15, a + b,
\* a & b, a >> n for n >= 16, and the conversion uint16(a).
Mul32(a, c) ==
  LET p0 == a[2] * c
      p1 == a[1] * c + p0 \div 2^16
  IN <<p1 % 2^16, p0 % 2^16>>
Add32(a, b) ==
  LET s0 == a[2] + b[2]
      s1 == a[1] + b[1] + s0 \div 2^16
  IN <<s1 % 2^16, s0 % 2^16>>
And32(a, b) == <<BitAnd(a[1], b[1]), BitAnd(a[2], b[2])>>
Shr32(a, n) == <<0, a[1] \div 2^(n - 16)>>
Uint16(a) == a[2]

(***************************************************************************)
(* reduce.go                                                               *)
(***************************************************************************)
qinv == 7679
rlog == 18

\* montgomeryReduce with the masking of u left out.
montgomeryReduce_NoMask(a) ==
  LET u1 == Mul32(a, qinv)
      u3 == Mul32(u1, kyberQ)
  IN Uint16(Shr32(Add32(a, u3), rlog))

\* montgomeryReduce that multiplies by the inverse of q modulo 2^rlog,
\* 2^rlog - qinv, instead of qinv.
montgomeryReduce_PlainInverse(a) ==
  LET u1 == And32(Mul32(a, qinv), <<2^(rlog - 16) - 1, 2^16 - 1>>)
      n == (2^rlog - (u1[1] * 2^16 + u1[2])) % 2^rlog
      u2 == <<n \div 2^16, n % 2^16>>
      u3 == Mul32(u2, kyberQ)
  IN Uint16(Shr32(Add32(a, u3), rlog))

\* montgomeryReduce(a uint32) uint16
montgomeryReduce(a) ==
  LET u1 == Mul32(a, qinv)
      u2 == And32(u1, <<2^(rlog - 16) - 1, 2^16 - 1>>)
      u3 == Mul32(u2, kyberQ)
  IN Uint16(Shr32(Add32(a, u3), rlog))

\* barrettReduce that takes the quotient estimate from a >> 14.
barrettReduce_Shift14(a) ==
  LET u == Shr(a, 14) * kyberQ
  IN (a + 2^16 - (u % 2^16)) % 2^16

\* barrettReduce(a uint16) uint16
barrettReduce(a) ==
  LET u == Shr(a, 13) * kyberQ
  IN (a + 2^16 - (u % 2^16)) % 2^16

\* freeze(x uint16) uint16; c is int16(m) >> 15, an arithmetic shift.
freeze(x) ==
  LET r == barrettReduce(x)
      m == (r + 2^16 - kyberQ) % 2^16
      c == (IF m >= 2^15 THEN m - 2^16 ELSE m) \div 2^15
  IN BitXor(m, BitAnd(BitXor(r, m), (c + 2^16) % 2^16))

(***************************************************************************)
(* The reductions, applied to machine words.  montgomeryReduce is given    *)
(* every MontStep-th value of the upper half with a few lower halves, and  *)
(* the words at which its behaviour changes; freeze every uint16.          *)
(***************************************************************************)
MontStep == 16

\* q * R, q * (R + 1), 2^32 - (R - 1) * q and their neighbours, 2 * q * R
\* and the largest word.
MontEdges ==
  { <<4 * kyberQ - 4, 0>>, <<4 * kyberQ, 0>>, <<4 * kyberQ, kyberQ - 1>>,
    <<4 * kyberQ, kyberQ>>, <<2^16 - 4 * kyberQ, kyberQ - 1>>,
    <<2^16 - 4 * kyberQ, kyberQ>>, <<2^16 - 4 * kyberQ, kyberQ + 1>>,
    <<8 * kyberQ, 0>>, <<2^16 - 1, 2^16 - 1>> }

MontInputs ==
  {<<hi, lo>> : hi \in {h \in 0..(2^16 - 1) : h % MontStep = 0},
                lo \in {0, 1, kyberQ, 2^15, 2^16 - 1}} \cup MontEdges

CallMontgomeryReduce ==
  /\ ret.op = "none"
  /\ \E a \in MontInputs :
       ret' = [op |-> "montgomeryReduce", a |-> a, r |-> montgomeryReduce(a)]
  /\ UNCHANGED <<keys, enc, sess, resp>>

CallFreeze ==
  /\ ret.op = "none"
  /\ \E x \in 0..(2^16 - 1) :
       ret' = [op |-> "freeze", x |-> x, b |-> barrettReduce(x), r |-> freeze(x)]
  /\ UNCHANGED <<keys, enc, sess, resp>>

NextReduce ==
  \/ CallMontgomeryReduce
  \/ CallFreeze

SpecReduce == Init /\ [][NextReduce]_vars

(***************************************************************************)
(* Compression with the arithmetic of the code (poly.go, polyvec.go).  A   *)
(* polynomial is the sequence of its kyberN coefficients, a vector a       *)
(* sequence of polynomials, a byte string a sequence of numbers 0 .. 255.  *)
(***************************************************************************)
\* poly.compress without the rounding term kyberQ/2.
compressCoeff3_NoRound(x) ==
  BitAnd(Shl(freeze(x), 3, 16) \div kyberQ, 7)

\* (((freeze(x) << 3) + kyberQ/2) / kyberQ) & 7, in uint16
compressCoeff3(x) ==
  BitAnd(((Shl(freeze(x), 3, 16) + kyberQ \div 2) % 2^16) \div kyberQ, 7)

\* ((t * kyberQ) + 4) >> 3, in uint16
decompressCoeff3(t) == Shr((t * kyberQ + 4) % 2^16, 3)

\* uint16((((uint32(freeze(x)) << 11) + kyberQ/2) / kyberQ) & 0x7ff)
compressCoeff11(x) ==
  BitAnd((freeze(x) * 2^11 + kyberQ \div 2) \div kyberQ, 2^11 - 1)

\* uint16(((t * kyberQ) + 1024) >> 11), t a uint32
decompressCoeff11(t) == Shr(t * kyberQ + 1024, 11) % 2^16

\* byte(x)
Byte(x) == x % 2^8

\* poly.compress: three bytes for every eight coefficients.
poly_compress(p) ==
  [ b \in 1..polyCompressedSize |->
      LET i == 8 * ((b - 1) \div 3)
          t(j) == compressCoeff3(p[i + j + 1])
      IN CASE (b - 1) % 3 = 0 ->
                Byte(BitOr(BitOr(t(0), Shl(t(1), 3, 32)), Shl(t(2), 6, 32)))
           [] (b - 1) % 3 = 1 ->
                Byte(BitOr(BitOr(BitOr(Shr(t(2), 2), Shl(t(3), 1, 32)),
                                 Shl(t(4), 4, 32)), Shl(t(5), 7, 32)))
           [] (b - 1) % 3 = 2 ->
                Byte(BitOr(BitOr(Shr(t(5), 1), Shl(t(6), 2, 32)), Shl(t(7), 5, 32))) ]

\* poly.decompress; a[off+1]<<2 and a[off+2]<<1 are shifts of a byte.
poly_decompress(a) ==
  [ i \in 1..kyberN |->
      LET off == 3 * ((i - 1) \div 8)
          A(n) == a[off + n + 1]
          j == (i - 1) % 8
      IN decompressCoeff3(
           CASE j = 0 -> BitAnd(A(0), 7)
             [] j = 1 -> BitAnd(Shr(A(0), 3), 7)
             [] j = 2 -> BitOr(Shr(A(0), 6), BitAnd(Shl(A(1), 2, 8), 4))
             [] j = 3 -> BitAnd(Shr(A(1), 1), 7)
             [] j = 4 -> BitAnd(Shr(A(1), 4), 7)
             [] j = 5 -> BitOr(Shr(A(1), 7), BitAnd(Shl(A(2), 1, 8), 6))
             [] j = 6 -> BitAnd(Shr(A(2), 2), 7)
             [] j = 7 -> Shr(A(2), 5)) ]

\* polyVec.compress: eleven bytes for every eight coefficients of every
\* polynomial of the vector.
polyVec_compress(v) ==
  [ b \in 1..(Len(v) * compressedCoeffSize) |->
      LET vec == v[(b - 1) \div compressedCoeffSize + 1]
          j == ((b - 1) % compressedCoeffSize) \div 11
          n == ((b - 1) % compressedCoeffSize) % 11
          t(k) == compressCoeff11(vec[8 * j + k + 1])
      IN CASE n = 0 -> Byte(BitAnd(t(0), 255))
           [] n = 1 -> Byte(BitOr(Shr(t(0), 8), Shl(BitAnd(t(1), 31), 3, 16)))
           [] n = 2 -> Byte(BitOr(Shr(t(1), 5), Shl(BitAnd(t(2), 3), 6, 16)))
           [] n = 3 -> Byte(BitAnd(Shr(t(2), 2), 255))
           [] n = 4 -> Byte(BitOr(Shr(t(2), 10), Shl(BitAnd(t(3), 127), 1, 16)))
           [] n = 5 -> Byte(BitOr(Shr(t(3), 7), Shl(BitAnd(t(4), 15), 4, 16)))
           [] n = 6 -> Byte(BitOr(Shr(t(4), 4), Shl(BitAnd(t(5), 1), 7, 16)))
           [] n = 7 -> Byte(BitAnd(Shr(t(5), 1), 255))
           [] n = 8 -> Byte(BitOr(Shr(t(5), 9), Shl(BitAnd(t(6), 63), 2, 16)))
           [] n = 9 -> Byte(BitOr(Shr(t(6), 6), Shl(BitAnd(t(7), 7), 5, 16)))
           [] n = 10 -> Byte(Shr(t(7), 3)) ]

\* polyVec.decompress into a vector of k polynomials.
polyVec_decompress(k, a) ==
  [ i \in 1..k |->
      [ c \in 1..kyberN |->
          LET off == (i - 1) * compressedCoeffSize
              j == (c - 1) \div 8
              A(n) == a[off + 11 * j + n + 1]
              m == (c - 1) % 8
          IN decompressCoeff11(
               CASE m = 0 -> BitOr(A(0), Shl(BitAnd(A(1), 7), 8, 32))
                 [] m = 1 -> BitOr(Shr(A(1), 3), Shl(BitAnd(A(2), 63), 5, 32))
                 [] m = 2 -> BitOr(BitOr(Shr(A(2), 6), Shl(BitAnd(A(3), 255), 2, 32)),
                                   Shl(BitAnd(A(4), 1), 10, 32))
                 [] m = 3 -> BitOr(Shr(A(4), 1), Shl(BitAnd(A(5), 15), 7, 32))
                 [] m = 4 -> BitOr(Shr(A(5), 4), Shl(BitAnd(A(6), 127), 4, 32))
                 [] m = 5 -> BitOr(BitOr(Shr(A(6), 7), Shl(BitAnd(A(7), 255), 1, 32)),
                                   Shl(BitAnd(A(8), 3), 9, 32))
                 [] m = 6 -> BitOr(Shr(A(8), 2), Shl(BitAnd(A(9), 31), 6, 32))
                 [] m = 7 -> BitOr(Shr(A(9), 5), Shl(BitAnd(A(10), 255), 3, 32))) ] ]

(***************************************************************************)
(* Parameter sets and compression applied to their inputs.  Every byte     *)
(* string is the little-endian packing of w-bit fields; the strings given  *)
(* to decompress carry consecutive values in consecutive fields, so that   *)
(* across the NOffsets starting values every w-bit value occurs at every   *)
(* position of a group of eight.  A codec is called on an input or on what *)
(* the codec of the other direction has just produced, at most three calls *)
(* in a row.                                                                *)
(***************************************************************************)
KMax == 6
NOffsets == 8

\* The byte string whose i-th w-bit field, bits w*i .. w*i+w-1, is f[i+1].
PackFields(f, w) ==
  [ b \in 1..((Len(f) * w) \div 8) |->
      LET Bit(n) == (f[(8 * (b - 1) + n) \div w + 1] \div 2^((8 * (b - 1) + n) % w)) % 2
      IN Bit(0) + 2 * Bit(1) + 4 * Bit(2) + 8 * Bit(3) + 16 * Bit(4) + 32 * Bit(5)
           + 64 * Bit(6) + 128 * Bit(7) ]

\* n fields of w bits, counting up from s, and on by one more after every
\* 2^w fields.
Fields(n, w, s) == [i \in 1..n |-> (s + (i - 1) + (i - 1) \div 2^w) % 2^w]

\* The inputs of poly.decompress and of polyVec.decompress for k polynomials.
PolyStrings == {PackFields(Fields(kyberN, 3, s), 3) : s \in 0..(NOffsets - 1)}
PolyVecStrings(k) ==
  {PackFields(Fields(k * kyberN, 11, k * kyberN * a + s), 11) :
     a \in 0..((2^11 - 1) \div (k * kyberN)), s \in 0..(NOffsets - 1)}

\* The inputs of compress: polynomials with coefficients in [0, q), every
\* value of which occurs in one of them.
Polys == {[i \in 1..kyberN |-> (kyberN * s + i - 1) % kyberQ] : s \in 0..(kyberQ \div kyberN)}

CallNewParameterSet ==
  /\ ret.op = "none"
  /\ \E k \in (0 - 2)..KMax :
       ret' = [op |-> "newParameterSet", k |-> k, p |-> newParameterSet("Kyber", k)]
  /\ UNCHANGED <<keys, enc, sess, resp>>

\* What a call of a codec leaves in `ret`: its argument, its result, and
\* the arguments of the two calls before it in `hist`, latest first.
Coded(op, k, arg, res) ==
  ret' = [ op |-> op, k |-> k, arg |-> arg, res |-> res,
           hist |-> IF ret.op = "none" THEN << >>
                    ELSE IF Len(ret.hist) = 0 THEN <<ret.arg>>
                    ELSE <<ret.arg, ret.hist[1]>> ]

\* p.decompress(c), c being one of the input strings or what p.compress
\* has just written.
CallPolyDecompress ==
  /\ \/ /\ ret.op = "none"
        /\ \E c \in PolyStrings : Coded("poly.decompress", 1, c, poly_decompress(c))
     \/ /\ ret.op = "poly.compress"
        /\ Len(ret.hist) <= 1
        /\ Coded("poly.decompress", 1, ret.res, poly_decompress(ret.res))
  /\ UNCHANGED <<keys, enc, sess, resp>>

\* p.compress(c), p being one of the input polynomials or what p.decompress
\* has just made.
CallPolyCompress ==
  /\ \/ /\ ret.op = "none"
        /\ \E p \in Polys : Coded("poly.compress", 1, p, poly_compress(p))
     \/ /\ ret.op = "poly.decompress"
        /\ Len(ret.hist) <= 1
        /\ Coded("poly.compress", 1, ret.res, poly_compress(ret.res))
  /\ UNCHANGED <<keys, enc, sess, resp>>

\* v.decompress(c), v a vector of the parameter set q
CallPolyVecDecompress ==
  /\ \/ /\ ret.op = "none"
        /\ \E q \in allParams :
             \E c \in PolyVecStrings(q.k) :
               Coded("polyVec.decompress", q.k, c, polyVec_decompress(q.k, c))
     \/ /\ ret.op = "polyVec.compress"
        /\ Len(ret.hist) <= 1
        /\ Coded("polyVec.decompress", ret.k, ret.res, polyVec_decompress(ret.k, ret.res))
  /\ UNCHANGED <<keys, enc, sess, resp>>

\* v.compress(c), v being a vector of two input polynomials or what
\* v.decompress has just made.
CallPolyVecCompress ==
  /\ \/ /\ ret.op = "none"
        /\ \E p \in Polys :
             LET v == <<p, [i \in 1..kyberN |-> (p[i] + kyberQ \div 2) % kyberQ]>>
             IN Coded("polyVec.compress", 2, v, polyVec_compress(v))
     \/ /\ ret.op = "polyVec.decompress"
        /\ Len(ret.hist) <= 1
        /\ Coded("polyVec.compress", ret.k, ret.res, polyVec_compress(ret.res))
  /\ UNCHANGED <<keys, enc, sess, resp>>

NextCodec ==
  \/ CallNewParameterSet
  \/ CallPolyDecompress
  \/ CallPolyCompress
  \/ CallPolyVecDecompress
  \/ CallPolyVecCompress

SpecCodec == Init /\ [][NextCodec]_vars

(***************************************************************************)
(* The documented example flows (doc_test.go).  Each example is one        *)
(* function: it draws everything from one reader, panics with the error of *)
(* a failed call, and ends with the comparison of the two secrets.         *)
(***************************************************************************)
ExampleReads == 9
ExampleBlocks == 4

\* The readers an example is run with: blocks that count up in steps of d
\* from s, and readers that run out early.
ExampleTapes ==
  { [i \in 1..n |-> (s + (i - 1) * d) % ExampleBlocks] :
      s \in 0..(ExampleBlocks - 1), d \in 0..(ExampleBlocks - 1), n \in 0..ExampleReads }

Examples ==
  { "Example_keyEncapsulationMechanism", "Example_keyExchangeUnilateralAuth",
    "Example_keyExchangeMutualAuth" }

\* Where an example stands: at the call `pc`, with what is left of the
\* reader, or stopped by the panic of a call.
At(op, pc, rng) == ret' = [op |-> op, pc |-> pc, rng |-> rng, panic |-> "nil"]
Stopped(op, err, rng) == ret' = [op |-> op, pc |-> "done", rng |-> rng, panic |-> err]

\* ..., aliceStaticPrivateKey, err := Kyber768.GenerateKeyPair(rand.Reader)
ExampleAliceKeyPair ==
  /\ ret.op = "none"
  /\ \E op \in Examples, rng \in ExampleTapes :
       LET Got(g) ==
             IF g.err # "nil"
             THEN Stopped(op, g.err, g.rng) /\ UNCHANGED keys
             ELSE /\ keys' = [keys EXCEPT !["A"] = <<g.kp>>]
                  /\ At(op, CASE op = "Example_keyEncapsulationMechanism" -> "KEMEncrypt"
                              [] op = "Example_keyExchangeUnilateralAuth" -> "NewInitiatorState"
                              [] op = "Example_keyExchangeMutualAuth" -> "BobKeyPair",
                        g.rng)
       IN Got(GenerateKeyPair(Kyber768, rng))
  /\ UNCHANGED <<enc, sess, resp>>

\* bobStaticPublicKey, bobStaticPrivateKey, err := Kyber768.GenerateKeyPair(rand.Reader)
ExampleBobKeyPair ==
  /\ ret.op \in Examples
  /\ ret.pc = "BobKeyPair"
  /\ LET Got(g) ==
           IF g.err # "nil"
           THEN Stopped(ret.op, g.err, g.rng) /\ UNCHANGED keys
           ELSE /\ keys' = [keys EXCEPT !["B"] = <<g.kp>>]
                /\ At(ret.op, "NewInitiatorState", g.rng)
     IN Got(GenerateKeyPair(Kyber768, ret.rng))
  /\ UNCHANGED <<enc, sess, resp>>

\* peerPublicKey, err := Kyber768.PublicKeyFromBytes(alicePublicKey.Bytes())
\* cipherText, bobSharedSecret, err := peerPublicKey.KEMEncrypt(rand.Reader)
ExampleKEMEncrypt ==
  /\ ret.op \in Examples
  /\ ret.pc = "KEMEncrypt"
  /\ LET Encrypted2(e) ==
           IF e.err # "nil"
           THEN Stopped(ret.op, e.err, e.rng) /\ UNCHANGED enc
           ELSE /\ enc' = << [ to |-> "A", cipherText |-> e.cipherText,
                               sharedSecret |-> e.sharedSecret ] >>
                /\ At(ret.op, "KEMDecrypt", e.rng)
         Got(peer) ==
           IF peer.err # "nil"
           THEN Stopped(ret.op, peer.err, ret.rng) /\ UNCHANGED enc
           ELSE Encrypted2(KEMEncrypt(peer.key, ret.rng))
     IN Got(PublicKeyFromBytes(Kyber768, PublicKey_Bytes(keys["A"][1].PublicKey)))
  /\ UNCHANGED <<keys, sess, resp>>

\* What the last call of an example leaves: the two secrets, or its panic.
Compared(d, alice, bob) ==
  IF d.panic # "nil" THEN Stopped(ret.op, d.panic, ret.rng)
  ELSE ret' = [ op |-> ret.op, pc |-> "check", rng |-> ret.rng, panic |-> "nil",
                aliceSharedSecret |-> alice, bobSharedSecret |-> bob ]

\* aliceSharedSecret := alicePrivateKey.KEMDecrypt(cipherText)
ExampleKEMDecrypt ==
  /\ ret.op \in Examples
  /\ ret.pc = "KEMDecrypt"
  /\ LET Got(d) ==
           Compared(d, IF d.panic = "nil" THEN d.sharedSecret ELSE << >>,
                    enc[1].sharedSecret)
     IN Got(KEMDecrypt(keys["A"][1], enc[1].cipherText))
  /\ UNCHANGED <<keys, enc, sess, resp>>

\* bobState, err := aliceStaticPublicKey.New(U)AKEInitiatorState(rand.Reader)
ExampleNewInitiatorState ==
  /\ ret.op \in Examples
  /\ ret.pc = "NewInitiatorState"
  /\ LET kind == IF ret.op = "Example_keyExchangeMutualAuth" THEN "AKE" ELSE "UAKE"
         Got(n) ==
           IF n.err # "nil"
           THEN Stopped(ret.op, n.err, n.rng) /\ UNCHANGED sess
           ELSE /\ sess' = << [kind |-> kind, s |-> n.s] >>
                /\ At(ret.op, "ResponderShared", n.rng)
     IN IF kind = "AKE"
        THEN Got(NewAKEInitiatorState(keys["A"][1].PublicKey, ret.rng))
        ELSE Got(NewUAKEInitiatorState(keys["A"][1].PublicKey, ret.rng))
  /\ UNCHANGED <<keys, enc, resp>>

\* aliceMessage, aliceSharedSecret :=
\*   aliceStaticPrivateKey.(U)AKEResponderShared(rand.Reader, bobState.Message, ...)
ExampleResponderShared ==
  /\ ret.op \in Examples
  /\ ret.pc = "ResponderShared"
  /\ LET Got(r) ==
           IF r.panic # "nil"
           THEN Stopped(ret.op, r.panic, r.rng) /\ UNCHANGED resp
           ELSE /\ resp' = << [ recv |-> sess[1].s.Message, message |-> r.message,
                                sharedSecret |-> r.sharedSecret ] >>
                /\ At(ret.op, "Shared", r.rng)
     IN IF sess[1].kind = "AKE"
        THEN Got(AKEResponderShared(keys["A"][1], ret.rng, sess[1].s.Message,
                                    keys["B"][1].PublicKey))
        ELSE Got(UAKEResponderShared(keys["A"][1], ret.rng, sess[1].s.Message))
  /\ UNCHANGED <<keys, enc, sess>>

\* bobSharedSecret := bobState.Shared(aliceMessage [, bobStaticPrivateKey])
ExampleInitiatorShared ==
  /\ ret.op \in Examples
  /\ ret.pc = "Shared"
  /\ LET Got(r) ==
           /\ sess' = << [kind |-> sess[1].kind, s |-> r.s] >>
           /\ Compared(r, resp[1].sharedSecret,
                       IF r.panic = "nil" THEN r.sharedSecret ELSE << >>)
     IN IF sess[1].kind = "AKE"
        THEN Got(AKEInitiatorState_Shared(sess[1].s, resp[1].message, keys["B"][1]))
        ELSE Got(UAKEInitiatorState_Shared(sess[1].s, resp[1].message))
  /\ UNCHANGED <<keys, enc, resp>>

\* if bytes.Equal(aliceSharedSecret, bobSharedSecret) {
\*     panic("Shared secrets mismatch")
\* }
ExampleFinalCheck ==
  /\ ret.op \in Examples
  /\ ret.pc = "check"
  /\ ret' = [ ret EXCEPT
                !.pc = "done",
                !.panic = IF ret.aliceSharedSecret = ret.bobSharedSecret
                          THEN "Shared secrets mismatch" ELSE "nil" ]
  /\ UNCHANGED <<keys, enc, sess, resp>>

NextExamples ==
  \/ ExampleAliceKeyPair
  \/ ExampleBobKeyPair
  \/ ExampleKEMEncrypt
  \/ ExampleKEMDecrypt
  \/ ExampleNewInitiatorState
  \/ ExampleResponderShared
  \/ ExampleInitiatorShared
  \/ ExampleFinalCheck

SpecExamples == Init /\ [][NextExamples]_vars

(***************************************************************************)
(* Properties of the KEM (specification Spec).                             *)
(***************************************************************************)
\* The last call was KEMDecrypt, with the private key of the role the last
\* encapsulation was made to.
DecryptedByOwner ==
  /\ ret.op = "KEMDecrypt"
  /\ Len(enc) = 1
  /\ ret.key = enc[1].to

\* The private key the last KEMDecrypt was called on.
DecKey == keys[ret.key][1]
\* m', the IND-CPA decryption of the ciphertext the last KEMDecrypt was given.
DecM == indcpaDecrypt(DecKey.PublicKey.p, ret.cipherText, DecKey.sk)
\* kr' = SHA3-512(m' || H(pk))
DecKr == SHA3_512(Append2(DecM, DecKey.PublicKey.pk.h))
\* The re-encryption of m' under the coins kr'[32:].
DecCmp ==
  indcpaEncrypt(DecKey.PublicKey.p, DecM, DecKey.PublicKey.pk,
                Slice(DecKr, SymSize, 2 * SymSize))
\* The last KEMDecrypt returned a secret, and its re-encryption check failed.
Rejected ==
  /\ ret.op = "KEMDecrypt"
  /\ ret.panic = "nil"
  /\ DecCmp # ret.cipherText

\* C1: decapsulating the ciphertext of KEMEncrypt, unchanged, with the
\* private key of the pair it was made for returns exactly the 32-byte
\* secret KEMEncrypt returned, at every parameter set.
C1_EncapsThenDecaps ==
  (DecryptedByOwner /\ ret.cipherText = enc[1].cipherText)
    => /\ ret.panic = "nil"
       /\ ret.sharedSecret = enc[1].sharedSecret
       /\ BLen(ret.sharedSecret) = SymSize
       /\ DecCmp = ret.cipherText

C1_Witness ==
  /\ DecryptedByOwner
  /\ ret.cipherText = enc[1].cipherText
  /\ ret.panic = "nil"
  /\ DecKey.PublicKey.p = Kyber1024

\* C3: decapsulating any byte string of the ciphertext's length that is not
\* the ciphertext, with the private key of the pair it was made for, returns
\* a secret different from the one KEMEncrypt returned.
C3_ChangedCiphertextChangesSecret ==
  ( /\ DecryptedByOwner
    /\ BLen(ret.cipherText) = BLen(enc[1].cipherText)
    /\ ret.cipherText # enc[1].cipherText )
    => /\ ret.panic = "nil"
       /\ ret.sharedSecret # enc[1].sharedSecret

\* A byte of the ciphertext was changed by less than the decoder corrects:
\* the decoded message is the encapsulator's, the bytes are not.
C3_Witness ==
  /\ DecryptedByOwner
  /\ ret.cipherText # enc[1].cipherText
  /\ Nearest(ret.cipherText) = enc[1].cipherText
  /\ ret.panic = "nil"
  /\ ret.sharedSecret # enc[1].sharedSecret

\* C4, as stated: for every ciphertext of the right length, accepted or
\* rejected, the secret is SHA3-256(kr'[:32] || SHA3-256(ct)).
C4_AsStated ==
  (ret.op = "KEMDecrypt" /\ ret.panic = "nil")
    => ret.sharedSecret =
         SHA3_256(Append2(Slice(DecKr, 0, SymSize), SHA3_256(ret.cipherText)))

\* C4, amended: the secret is SHA3-256(kr'[:32] || SHA3-256(ct)) when the
\* re-encryption of m' equals ct, and SHA3-256(kr'[:32] || z) when it does
\* not.
C4_SecretOfDecaps ==
  (ret.op = "KEMDecrypt" /\ ret.panic = "nil")
    => ret.sharedSecret =
         SHA3_256(Append2(Slice(DecKr, 0, SymSize),
                          IF DecCmp = ret.cipherText
                          THEN SHA3_256(ret.cipherText)
                          ELSE DecKey.z))

C4_Witness ==
  /\ Rejected
  /\ ret.sharedSecret = SHA3_256(Append2(Slice(DecKr, 0, SymSize), DecKey.z))

\* C5: on a failed re-encryption check it is the pre-key kr'[:32] that z
\* replaces, on success the pre-key is kept, and SHA3-256(ct) is the second
\* half of the hash input in both cases.
C5_PreKeyReplaced ==
  (ret.op = "KEMDecrypt" /\ ret.panic = "nil")
    => ret.sharedSecret =
         SHA3_256(Append2(IF DecCmp = ret.cipherText
                          THEN Slice(DecKr, 0, SymSize)
                          ELSE DecKey.z,
                          SHA3_256(ret.cipherText)))

\* C6: KEMDecrypt panics with ErrInvalidCipherTextSize exactly when the
\* length of what it is given is not CipherTextSize() of the key's parameter
\* set; otherwise, whatever the bytes, it returns 32 bytes and no panic.
C6_PanicsOnLengthOnly ==
  ret.op = "KEMDecrypt"
    => /\ (ret.panic = "ErrInvalidCipherTextSize")
            <=> (BLen(ret.cipherText) # CipherTextSize(DecKey.PublicKey.p))
       /\ BLen(ret.cipherText) = CipherTextSize(DecKey.PublicKey.p)
            => (ret.panic = "nil" /\ BLen(ret.sharedSecret) = SymSize)

\* One byte too many.
C6_Witness ==
  /\ ret.op = "KEMDecrypt"
  /\ BLen(ret.cipherText) = CipherTextSize(DecKey.PublicKey.p) + 1
  /\ ret.panic = "ErrInvalidCipherTextSize"

(***************************************************************************)
(* Properties of key serialisation (specification SpecKeys).               *)
(***************************************************************************)
\* The key pair whose serialisation the last *FromBytes call was fed.
SerKey == keys[ret.of][1]

\* The embedded fields of a private-key buffer b of parameter set p.
EmbeddedPk(p, b) ==
  Slice(b, p.indcpaSecretKeySize, p.indcpaSecretKeySize + p.publicKeySize)
EmbeddedHash(p, b) ==
  Slice(b, p.indcpaSecretKeySize + p.publicKeySize,
        p.indcpaSecretKeySize + p.publicKeySize + SymSize)

\* C7: the serialisations of a generated key pair have the lengths
\* PrivateKeySize() and PublicKeySize(), and reading them back with the
\* pair's parameter set succeeds with a key equal to the original in every
\* field (secret bytes, z, public bytes, cached digest, parameter set).
C7_RoundTrip ==
  /\ \A r \in Roles :
       Len(keys[r]) = 1
         => /\ BLen(PrivateKey_Bytes(keys[r][1])) = PrivateKeySize(keys[r][1].PublicKey.p)
            /\ BLen(PublicKey_Bytes(keys[r][1].PublicKey))
                 = PublicKeySize(keys[r][1].PublicKey.p)
  /\ ( /\ ret.op = "PrivateKeyFromBytes"
       /\ ret.p = SerKey.PublicKey.p
       /\ ret.b = PrivateKey_Bytes(SerKey) )
       => (ret.err = "nil" /\ ret.key = <<SerKey>>)
  /\ ( /\ ret.op = "PublicKeyFromBytes"
       /\ ret.p = SerKey.PublicKey.p
       /\ ret.b = PublicKey_Bytes(SerKey.PublicKey) )
       => (ret.err = "nil" /\ ret.key = <<SerKey.PublicKey>>)

C7_Witness ==
  /\ ret.op = "PrivateKeyFromBytes"
  /\ ret.p = Kyber768
  /\ ret.b = PrivateKey_Bytes(SerKey)
  /\ BLen(ret.b) = PrivateKeySize(Kyber768)
  /\ ret.key = <<SerKey>>

\* C8: on a buffer of exactly PrivateKeySize() bytes PrivateKeyFromBytes
\* returns (nil, ErrInvalidPrivateKey) when the embedded digest is not
\* SHA3-256 of the embedded public key, and a key with a nil error when it
\* is.
C8_EmbeddedDigestChecked ==
  (ret.op = "PrivateKeyFromBytes" /\ BLen(ret.b) = PrivateKeySize(ret.p))
    => IF EmbeddedHash(ret.p, ret.b) # SHA3_256(EmbeddedPk(ret.p, ret.b))
       THEN ret.err = "ErrInvalidPrivateKey" /\ ret.key = << >>
       ELSE ret.err = "nil" /\ Len(ret.key) = 1

\* The digest field was altered.
C8_Witness ==
  /\ ret.op = "PrivateKeyFromBytes"
  /\ BLen(ret.b) = PrivateKeySize(ret.p)
  /\ EmbeddedPk(ret.p, ret.b) = PublicKey_Bytes(SerKey.PublicKey)
  /\ EmbeddedHash(ret.p, ret.b) # SerKey.PublicKey.pk.h
  /\ ret.err = "ErrInvalidPrivateKey"

\* C9: PublicKeyFromBytes and PrivateKeyFromBytes return ErrInvalidKeySize
\* and a nil key for every buffer whose length is not PublicKeySize() resp.
\* PrivateKeySize() of the parameter set, also when the embedded digest is
\* wrong.
C9_LengthCheckedFirst ==
  /\ (ret.op = "PrivateKeyFromBytes" /\ BLen(ret.b) # PrivateKeySize(ret.p))
       => (ret.err = "ErrInvalidKeySize" /\ ret.key = << >>)
  /\ (ret.op = "PublicKeyFromBytes" /\ BLen(ret.b) # PublicKeySize(ret.p))
       => (ret.err = "ErrInvalidKeySize" /\ ret.key = << >>)

\* One byte short, and the digest field altered.
C9_Witness ==
  /\ ret.op = "PrivateKeyFromBytes"
  /\ BLen(ret.b) = PrivateKeySize(ret.p) - 1
  /\ EmbeddedHash(ret.p, ret.b) # SHA3_256(EmbeddedPk(ret.p, ret.b))
  /\ ret.err = "ErrInvalidKeySize"

(***************************************************************************)
(* Properties of the key exchanges (specification SpecKEX).                *)
(***************************************************************************)
\* The last call was a Shared of the exchange in progress.
SharedCalled == ret.op \in {"UAKEInitiatorState.Shared", "AKEInitiatorState.Shared"}
\* The last call was a responder call.
ResponderCalled == ret.op \in {"UAKEResponderShared", "AKEResponderShared"}

\* The responder was given the initiator's message as sent, and the last
\* call gave Shared the responder's message as sent (and, in AKE, the
\* initiator's own long-term key).
HonestRun ==
  /\ SharedCalled
  /\ Len(resp) = 1
  /\ resp[1].recv = sess[1].s.Message
  /\ ret.recv = resp[1].message
  /\ ret.key = "A"

\* C2: in UAKE and in AKE, at every parameter set, an honest end-to-end run
\* ends with the initiator's 32-byte secret equal to the responder's.
C2_HonestRunAgrees ==
  HonestRun
    => /\ ret.panic = "nil"
       /\ ret.sharedSecret = resp[1].sharedSecret
       /\ BLen(ret.sharedSecret) = SymSize

C2_Witness ==
  /\ HonestRun
  /\ sess[1].kind = "AKE"
  /\ keys["A"] # keys["B"]
  /\ ret.panic = "nil"
  /\ ret.sharedSecret = resp[1].sharedSecret

\* The length the message given to the last call should have had.
ExpectedSize ==
  CASE ret.op = "UAKEResponderShared" ->
         UAKEInitiatorMessageSize(keys["B"][1].PublicKey.p)
    [] ret.op = "AKEResponderShared" ->
         AKEInitiatorMessageSize(keys["B"][1].PublicKey.p)
    [] ret.op = "UAKEInitiatorState.Shared" ->
         UAKEResponderMessageSize(sess[1].s.eSk.PublicKey.p)
    [] ret.op = "AKEInitiatorState.Shared" ->
         AKEResponderMessageSize(sess[1].s.eSk.PublicKey.p)

\* In AKE, the two keys the last call combined are of one parameter set.
SameParameterSet ==
  CASE ret.op = "AKEResponderShared" ->
         keys["A"][1].PublicKey.p = keys["B"][1].PublicKey.p
    [] ret.op = "AKEInitiatorState.Shared" ->
         keys[ret.key][1].PublicKey.p = sess[1].s.eSk.PublicKey.p
    [] OTHER -> TRUE

\* C10: each of the four operations that receive a peer message panics with
\* ErrInvalidMessageSize when the message it is given has not the length
\* *MessageSize() of the parameter set (the keys being of one parameter set).
C10_WrongSizePanics ==
  ( /\ SharedCalled \/ ResponderCalled
    /\ SameParameterSet
    /\ BLen(ret.recv) # ExpectedSize )
    => ret.panic = "ErrInvalidMessageSize"

\* C11: AKEInitiatorState.Shared panics with ErrParameterSetMismatch when
\* the long-term key it is given is of another parameter set than the
\* state's ephemeral key, and AKEResponderShared when the peer's public key
\* is of another parameter set than the responder's key; whatever the length
\* of the message, and with no read of the random source.
C11_MismatchDetectedFirst ==
  /\ ( /\ ret.op = "AKEInitiatorState.Shared"
       /\ keys[ret.key][1].PublicKey.p # sess[1].s.eSk.PublicKey.p )
       => ret.panic = "ErrParameterSetMismatch"
  /\ ( /\ ret.op = "AKEResponderShared"
       /\ keys["A"][1].PublicKey.p # keys["B"][1].PublicKey.p )
       => (ret.panic = "ErrParameterSetMismatch" /\ ret.reads = 0)

\* The responder is given a message of the wrong length and a peer key of
\* another parameter set.
C11_Witness ==
  /\ ret.op = "AKEResponderShared"
  /\ keys["A"][1].PublicKey.p # keys["B"][1].PublicKey.p
  /\ BLen(ret.recv) # ExpectedSize
  /\ ret.panic = "ErrParameterSetMismatch"

\* A buffer of n zero bytes.
Zero(n) == Whole(<<"zero", 0>>, n)

\* The initiator state s no longer holds its ephemeral secret key and its
\* first-encapsulation secret: they are gone (nil) or zeroed.
Wiped(s) ==
  /\ s.tk \in {<< >>, Zero(SymSize)}
  /\ s.eSk.sk.packed \in {<< >>, Zero(s.eSk.PublicKey.p.indcpaSecretKeySize)}
  /\ s.eSk.z \in {<< >>, Zero(SymSize)}

\* C12: when UAKEInitiatorState.Shared or AKEInitiatorState.Shared has
\* returned, the state object no longer holds eSk and tk.
C12_StateWipedAfterShared ==
  (SharedCalled /\ ret.panic = "nil") => Wiped(sess[1].s)

(***************************************************************************)
(* Properties of keys and caller buffers (specification SpecBuffers).      *)
(***************************************************************************)
\* The cached digest of the public key pk is SHA3-256 of its bytes.
DigestCurrent(pk) == pk.pk.h = SHA3_256(PublicKey_Bytes(pk))

\* C13: whatever the caller does to a slice it got from Bytes() or to the
\* buffer it passed to *FromBytes, a key keeps its bytes, and its cached
\* digest stays SHA3-256 of its public-key bytes.
C13_KeysImmutable ==
  /\ \A r \in Roles : Len(keys[r]) = 1 => DigestCurrent(keys[r][1].PublicKey)
  /\ ( /\ ret.op = "overwrite"
       /\ ret.buffer.op \in {"PublicKeyFromBytes", "PrivateKeyFromBytes"} )
       => /\ ret.buffer.op = "PublicKeyFromBytes"
               => /\ DigestCurrent(ret.buffer.key[1])
                  /\ PublicKey_Bytes(ret.buffer.key[1]) = ret.buffer.b
          /\ ret.buffer.op = "PrivateKeyFromBytes"
               => /\ DigestCurrent(ret.buffer.key[1].PublicKey)
                  /\ PrivateKey_Bytes(ret.buffer.key[1]) = ret.buffer.b

(***************************************************************************)
(* More properties of the key exchanges (specification SpecKEX).           *)
(***************************************************************************)
\* The secret the private key sk decapsulates from bytes lo .. hi-1 of msg.
SecretOf(sk, msg, lo, hi) == KEMDecrypt(sk, Slice(msg, lo, hi)).sharedSecret

\* SHAKE-256 over three secrets absorbed in this order, 32 bytes squeezed.
Absorbed3(first, second, third) ==
  SHAKE256(Append2(Append2(first, second), third), SymSize)

\* The responder of the AKE in progress was given the initiator's message as
\* sent and has answered.
AKEAnswered ==
  /\ Len(sess) = 1
  /\ sess[1].kind = "AKE"
  /\ Len(resp) = 1
  /\ resp[1].recv = sess[1].s.Message

\* C14: in AKE both parties absorb, in this order, the secret of the first
\* half of the responder's message (encapsulated to the initiator's
\* ephemeral key), the secret of its second half (encapsulated to the
\* initiator's long-term key) and the secret of the initiator's first
\* encapsulation; the initiator decapsulates the first half with its
\* ephemeral key and the second with its long-term key.
C14_AKEAbsorbOrder ==
  /\ (ret.op = "AKEInitiatorState.Shared" /\ ret.panic = "nil")
       => LET ctLen == CipherTextSize(sess[1].s.eSk.PublicKey.p)
          IN ret.sharedSecret =
               Absorbed3(SecretOf(sess[1].s.eSk, ret.recv, 0, ctLen),
                         SecretOf(keys[ret.key][1], ret.recv, ctLen, 2 * ctLen),
                         sess[1].s.tk)
  /\ AKEAnswered
       => LET p == sess[1].s.eSk.PublicKey.p
              ctLen == CipherTextSize(p)
          IN resp[1].sharedSecret =
               Absorbed3(SecretOf(sess[1].s.eSk, resp[1].message, 0, ctLen),
                         SecretOf(keys["A"][1], resp[1].message, ctLen, 2 * ctLen),
                         SecretOf(keys["B"][1], sess[1].s.Message,
                                  PublicKeySize(p), AKEInitiatorMessageSize(p)))

\* An honest AKE run in which the three secrets are pairwise different, so
\* that a different order gives a different result.
C14_Witness ==
  /\ AKEAnswered
  /\ ret.op = "AKEInitiatorState.Shared"
  /\ ret.key = "A"
  /\ ret.recv = resp[1].message
  /\ ret.panic = "nil"
  /\ LET ctLen == CipherTextSize(sess[1].s.eSk.PublicKey.p)
         s1 == SecretOf(sess[1].s.eSk, ret.recv, 0, ctLen)
         s2 == SecretOf(keys["A"][1], ret.recv, ctLen, 2 * ctLen)
     IN /\ s1 # s2
        /\ s2 # sess[1].s.tk
        /\ s1 # sess[1].s.tk
        /\ ret.sharedSecret = Absorbed3(s1, s2, sess[1].s.tk)

\* C16: the initiator's message is the serialised ephemeral public key
\* followed by the ciphertext encapsulated to the responder's key and has
\* PublicKeySize() + CipherTextSize() bytes, which is what
\* UAKE/AKEInitiatorMessageSize() advertise; the responder's message has
\* CipherTextSize() bytes in UAKE and twice that in AKE, as advertised; every
\* shared secret has 32 bytes.
C16_MessageSizesAndLayout ==
  /\ Len(sess) = 1
       => LET s == sess[1].s
              p == s.eSk.PublicKey.p
              pkLen == PublicKeySize(p)
          IN /\ BLen(s.Message) = pkLen + CipherTextSize(p)
             /\ BLen(s.Message) = IF sess[1].kind = "UAKE"
                                  THEN UAKEInitiatorMessageSize(p)
                                  ELSE AKEInitiatorMessageSize(p)
             /\ Slice(s.Message, 0, pkLen) = PublicKey_Bytes(s.eSk.PublicKey)
             /\ SecretOf(keys["B"][1], s.Message, pkLen, BLen(s.Message)) = s.tk
             /\ BLen(s.tk) = SymSize
  /\ Len(resp) = 1
       => LET p == sess[1].s.eSk.PublicKey.p
          IN /\ sess[1].kind = "UAKE"
                  => /\ BLen(resp[1].message) = CipherTextSize(p)
                     /\ BLen(resp[1].message) = UAKEResponderMessageSize(p)
             /\ sess[1].kind = "AKE"
                  => /\ BLen(resp[1].message) = 2 * CipherTextSize(p)
                     /\ BLen(resp[1].message) = AKEResponderMessageSize(p)
             /\ BLen(resp[1].sharedSecret) = SymSize
  /\ (ret.op \in {"UAKEInitiatorState.Shared", "AKEInitiatorState.Shared"}
        /\ ret.panic = "nil")
       => BLen(ret.sharedSecret) = SymSize

\* A completed AKE under the largest parameter set.
C16_Witness ==
  /\ Len(sess) = 1
  /\ sess[1].kind = "AKE"
  /\ sess[1].s.eSk.PublicKey.p = Kyber1024
  /\ BLen(sess[1].s.Message) = 1440 + 1504
  /\ Len(resp) = 1
  /\ BLen(resp[1].message) = 2 * 1504
  /\ ret.op = "AKEInitiatorState.Shared"
  /\ ret.panic = "nil"
  /\ BLen(ret.sharedSecret) = 32

(***************************************************************************)
(* Properties of the random source (specification SpecRNG).                *)
(***************************************************************************)
\* The 32-byte block that a read of the tape value v returns.
Block(v) == Whole(<<"rng", v>>, SymSize)

\* Blocks the last call read.
ReadsOf(r) == Len(r.rng) - Len(r.rest)

\* The last call, `op`, returned without error.
Returned(op) == ret.op = op /\ ret.err = "nil"

\* The last call, `op`, failed for want of random bytes, having read less
\* than the n blocks it needs.
RanDry(op, n) ==
  (ret.op = op /\ ret.err # "nil") => (ret.err = "EOF" /\ Len(ret.rest) = 0 /\ ReadsOf(ret) < n)

\* C15: GenerateKeyPair reads exactly two blocks, d and then z; KEMEncrypt
\* exactly one; New*InitiatorState exactly three, two for one key
\* generation and then one for one encapsulation; KEMDecrypt and the
\* initiator's Shared calls read nothing.  A call that fails has run out of
\* random bytes before its last read.
C15_RandomReads ==
  /\ Returned("GenerateKeyPair")
       => /\ ReadsOf(ret) = 2
          /\ ret.rest = SubSeq(ret.rng, 3, Len(ret.rng))
          /\ keys[ret.of][1].z = Block(ret.rng[2])
          /\ keys[ret.of][1].sk =
               indcpaKeyPair(keys[ret.of][1].PublicKey.p, <<ret.rng[1]>>).sk
  /\ RanDry("GenerateKeyPair", 2)
  /\ Returned("KEMEncrypt")
       => /\ ReadsOf(ret) = 1
          /\ ret.rest = Tail(ret.rng)
          /\ enc[1].cipherText =
               KEMEncrypt(keys[ret.of][1].PublicKey, <<ret.rng[1]>>).cipherText
  /\ RanDry("KEMEncrypt", 1)
  /\ \A kind \in {"UAKE", "AKE"} :
       /\ Returned("New" \o kind \o "InitiatorState")
            => /\ ReadsOf(ret) = 3
               /\ ret.rest = SubSeq(ret.rng, 4, Len(ret.rng))
               /\ sess[1].s.eSk =
                    GenerateKeyPair(keys["B"][1].PublicKey.p, SubSeq(ret.rng, 1, 2)).kp
               /\ sess[1].s.tk =
                    KEMEncrypt(keys["B"][1].PublicKey, <<ret.rng[3]>>).sharedSecret
       /\ RanDry("New" \o kind \o "InitiatorState", 3)
  /\ ret.op \in {"KEMDecrypt", "UAKEInitiatorState.Shared", "AKEInitiatorState.Shared"}
       => ReadsOf(ret) = 0

\* A key pair generated from a tape whose first two blocks differ.
C15_Witness ==
  /\ Returned("GenerateKeyPair")
  /\ ReadsOf(ret) = 2
  /\ ret.rng[1] # ret.rng[2]
  /\ keys[ret.of][1].z = Block(ret.rng[2])

(***************************************************************************)
(* Properties of the reductions (specification SpecReduce).                *)
(***************************************************************************)
\* r is congruent to a * R^-1 modulo q, R = 2^rlog: r * R = a (mod q).
MontCongruent(a, r) ==
  (r * (2^rlog % kyberQ)) % kyberQ = (a[1] * (2^16 % kyberQ) + a[2]) % kyberQ

\* a < b for two uint32
Less32(a, b) == a[1] < b[1] \/ (a[1] = b[1] /\ a[2] < b[2])

\* The sum a + u * q of montgomeryReduce does not fit in 32 bits.
MontWraps(a) ==
  LET u == Mul32(And32(Mul32(a, qinv), <<2^(rlog - 16) - 1, 2^16 - 1>>), kyberQ)
  IN a[1] + u[1] + (a[2] + u[2]) \div 2^16 >= 2^16

\* C18, as stated: for every 32-bit a, montgomeryReduce(a) is congruent to
\* a * R^-1 modulo q and lies in [0, 2q).
C18_AsStated ==
  ret.op = "montgomeryReduce"
    => (MontCongruent(ret.a, ret.r) /\ ret.r < 2 * kyberQ)

\* C18, as the code has it: montgomeryReduce(a) is congruent to a * R^-1
\* modulo q and lies in [0, 2q) for every a < q * (R + 1); it is congruent
\* as long as a + u * q fits in 32 bits, and always below 2^14.
C18_MontgomeryWithinRange ==
  ret.op = "montgomeryReduce"
    => /\ Less32(ret.a, <<4 * kyberQ, kyberQ>>)
            => (MontCongruent(ret.a, ret.r) /\ ret.r < 2 * kyberQ)
       /\ ~MontWraps(ret.a) => MontCongruent(ret.a, ret.r)
       /\ ret.r < 2^(32 - rlog)

\* The largest input of the multiplications of the code, (q - 1) * R, which
\* reduces to q - 1.
C18_Witness ==
  /\ ret.op = "montgomeryReduce"
  /\ ret.a = <<4 * (kyberQ - 1), 0>>
  /\ ret.r = kyberQ - 1
  /\ MontCongruent(ret.a, ret.r)

\* C19: for every 16-bit x, barrettReduce(x) is congruent to x modulo q and
\* below 2q, and freeze(x) is congruent to x modulo q and below q.
C19_FreezeCanonical ==
  ret.op = "freeze"
    => /\ ret.b % kyberQ = ret.x % kyberQ
       /\ ret.b < 2 * kyberQ
       /\ ret.r = ret.x % kyberQ

\* The largest uint16: barrettReduce leaves a value above q, which freeze
\* brings below q.
C19_Witness ==
  /\ ret.op = "freeze"
  /\ ret.x = 2^16 - 1
  /\ ret.b >= kyberQ
  /\ ret.r = ret.b - kyberQ

(***************************************************************************)
(* Properties of the parameter sets and of compression (specification      *)
(* SpecCodec).                                                             *)
(***************************************************************************)
\* C17: for k = 2, 3, 4 newParameterSet gives eta = 5, 4, 3, a public key of
\* k*352+32 bytes, an IND-CPA secret key of k*416 bytes, a ciphertext of
\* k*352+96 bytes and a private key of k*416 + (k*352+32) + 64 bytes, that
\* is (pk, sk, ct) = (736, 1632, 800), (1088, 2400, 1152), (1440, 3168,
\* 1504); every other k panics.
C17_ParameterSets ==
  ret.op = "newParameterSet"
    => IF ret.k \in {2, 3, 4}
       THEN /\ ret.p.eta = 7 - ret.k
            /\ PublicKeySize(ret.p) = ret.k * 352 + 32
            /\ ret.p.indcpaSecretKeySize = ret.k * 416
            /\ CipherTextSize(ret.p) = ret.k * 352 + 96
            /\ PrivateKeySize(ret.p) = ret.k * 416 + (ret.k * 352 + 32) + 64
            /\ <<PublicKeySize(ret.p), PrivateKeySize(ret.p), CipherTextSize(ret.p)>>
                 = CASE ret.k = 2 -> <<736, 1632, 800>>
                     [] ret.k = 3 -> <<1088, 2400, 1152>>
                     [] ret.k = 4 -> <<1440, 3168, 1504>>
       ELSE ret.p = [panic |-> "kyber: k must be in {2,3,4}"]

\* newParameterSet(_, 3): the parameter set of Kyber-768.
C17_Witness ==
  /\ ret.op = "newParameterSet"
  /\ ret.k = 3
  /\ ret.p.eta = 4
  /\ PrivateKeySize(ret.p) = PrivateKeySize(Kyber768)
  /\ PrivateKeySize(ret.p) = 2400

\* C20: compress gives back every string that decompress was given: the
\* 96-byte strings of poly and the k*352-byte strings of polyVec, be they
\* inputs or themselves made by compress.
C20_CompressAfterDecompress ==
  (ret.op \in {"poly.compress", "polyVec.compress"} /\ Len(ret.hist) >= 1)
    => /\ ret.res = ret.hist[1]
       /\ Len(ret.res) = IF ret.op = "poly.compress" THEN polyCompressedSize
                         ELSE ret.k * compressedCoeffSize

\* A polynomial with coefficients in [0, q) was compressed, decompressed
\* and compressed again: the second string is the first, the second
\* polynomial is not the first.
C20_Witness ==
  /\ ret.op = "poly.compress"
  /\ Len(ret.hist) = 2
  /\ \A i \in 1..kyberN : ret.hist[2][i] < kyberQ
  /\ ret.arg # ret.hist[2]
  /\ ret.res = ret.hist[1]

(***************************************************************************)
(* Properties of the example flows (specification SpecExamples).           *)
(***************************************************************************)
\* An example has passed its final check.
Checked == ret.op \in Examples /\ ret.pc = "done" /\ "aliceSharedSecret" \in DOMAIN ret

\* C21: an example that runs to its end holds the same secret on both sides
\* and has not panicked; the final check panics with "Shared secrets
\* mismatch" only when the two secrets differ.
C21_ExamplesCompleteAndAgree ==
  Checked
    => /\ ret.aliceSharedSecret = ret.bobSharedSecret
       /\ ret.panic = "nil"
       /\ ret.panic = "Shared secrets mismatch"
            => ret.aliceSharedSecret # ret.bobSharedSecret


(***************************************************************************)
(* The rejection path of KEMDecrypt                                        *)
(***************************************************************************)
\* The ciphertexts the model delivers to KEMDecrypt for the first
\* encapsulation, other than the one just decapsulated, that the same key
\* rejects and decrypts to the same candidate message.
RejectedAlike ==
  {c \in Received(enc[1].cipherText, {0, BLen(enc[1].cipherText) - 1}, BOOLEAN) :
      /\ c # ret.cipherText
      /\ BLen(c) = BLen(ret.cipherText)
      /\ indcpaDecrypt(DecKey.PublicKey.p, c, DecKey.sk) = DecM
      /\ DecCmp # c}

\* C22: when KEMDecrypt rejects a ciphertext (the re-encryption differs from
\* it), the secret is SHA3-256(kr'[:SymSize] || z), where kr' is computed
\* from the decrypted candidate m' and the key's public digest only; hence
\* every other rejected ciphertext with the same m' under the same private
\* key gives the same secret.
C22_RejectionSecretFromMessageOnly ==
  (Rejected /\ Len(enc) > 0) =>
     /\ ret.sharedSecret = SHA3_256(Append2(Slice(DecKr, 0, SymSize), DecKey.z))
     /\ \A c \in RejectedAlike :
           KEMDecrypt(DecKey, c).sharedSecret = ret.sharedSecret

\* A rejected ciphertext that differs from the honest one yet decrypts to
\* its message, with a second, distinct, such ciphertext at hand.
C22_Witness ==
  /\ Rejected
  /\ Len(enc) > 0
  /\ ret.cipherText # enc[1].cipherText
  /\ Nearest(ret.cipherText) = enc[1].cipherText
  /\ RejectedAlike # {}


(***************************************************************************)
(* Outcomes of the responder calls (specification SpecKEX)                 *)
(***************************************************************************)
\* C23: a responder call given a message of the expected length (and, in
\* AKE, a peer key of its own parameter set), whose random source does not
\* fail, does not panic whatever the bytes of the message, and returns a
\* message of ResponderMessageSize bytes and a secret of SymSize bytes.  A
\* call that panics does so with ErrInvalidMessageSize (the length was
\* wrong), ErrParameterSetMismatch (the peer key was of another parameter
\* set) or the error of the random source (which ran dry before the last
\* read), and leaves no result.
C23_ResponderOutcomes ==
  ResponderCalled =>
    LET p == keys["B"][1].PublicKey.p
        uake == ret.op = "UAKEResponderShared"
    IN /\ ret.panic \in {"nil", "ErrInvalidMessageSize", "ErrParameterSetMismatch", "EOF"}
       /\ (BLen(ret.recv) = ExpectedSize /\ SameParameterSet /\ ret.panic # "EOF")
            => ret.panic = "nil"
       /\ ret.panic = "nil"
            => /\ Len(resp) = 1
               /\ resp[1].recv = ret.recv
               /\ BLen(resp[1].message) =
                    (IF uake THEN UAKEResponderMessageSize(p)
                             ELSE AKEResponderMessageSize(p))
               /\ BLen(resp[1].sharedSecret) = SymSize
               /\ ret.reads = (IF uake THEN 1 ELSE 2)
       /\ ret.panic = "ErrInvalidMessageSize" => BLen(ret.recv) # ExpectedSize
       /\ ret.panic = "ErrParameterSetMismatch" => ~SameParameterSet
       /\ ret.panic = "EOF" => ret.reads < (IF uake THEN 1 ELSE 2)
       /\ ret.panic # "nil" => Len(resp) = 0

\* A responder answered a message of the right length whose first byte (in
\* the ephemeral public key) or whose first ciphertext byte is not the one
\* that was sent.
C23_Witness ==
  /\ ResponderCalled
  /\ ret.recv # sess[1].s.Message
  /\ BLen(ret.recv) = ExpectedSize
  /\ ret.panic = "nil"
  /\ Len(resp) = 1
  /\ BLen(resp[1].sharedSecret) = SymSize


(***************************************************************************)
(* indcpa.go: genMatrix (specification SpecMatrix).                        *)
(* The call is followed step by step: the seeding of a cell, each turn of  *)
(* the sampling loop, the reset of the sponge.  The state of the call is   *)
(* held in `ret`: the matrix a, the cell <<i, j>>, the buffer, the loop    *)
(* variables ctr, pos and maxPos, and the sponge (what it has absorbed and *)
(* how many bytes it has given out).                                       *)
(***************************************************************************)
shake128Rate == 168
maxBlocks == 4
\* Largest k a matrix is generated for.
MatrixKMax == 3

\* The output of SHAKE-128 is an input of the model: a family of streams of
\* 16-bit little-endian words, one stream for each absorbed input.  The
\* streams of some inputs have candidates above q at chosen places (the
\* first `first` words, or all words whose index is not a multiple of
\* `every`), so that the four blocks squeezed up front are just enough, or
\* not enough by one candidate, or by several blocks; the others take all
\* 16-bit values.
XofPattern(ext) ==
  LET h == (ext[1] + ext[2] + 3 * ext[3]) % 5
  IN CASE h = 0 -> [first |-> 0, every |-> 1, wide |-> TRUE]
       [] h = 1 -> [first |-> 80, every |-> 1, wide |-> FALSE]
       [] h = 2 -> [first |-> 81, every |-> 1, wide |-> FALSE]
       [] h = 3 -> [first |-> 0, every |-> 2, wide |-> TRUE]
       [] h = 4 -> [first |-> 3, every |-> 1, wide |-> TRUE]
XofWord(in, n) ==
  LET ext == in[Len(in)]
      pat == XofPattern(ext)
      B == 1 + 977 * ext[1] + 31 * ext[2] + 7 * ext[3] + 4001 * (Len(in) - 1)
      high == 2^13 * (n % 8)
  IN IF n < pat.first \/ n % pat.every # 0
     THEN kyberQ + ((n * 97) % 511) + high
     ELSE IF pat.wide THEN (n * 40503 + B) % 2^16
     ELSE ((n * 40503 + B) % kyberQ) + high
\* Byte t of the stream.
XofByte(in, t) ==
  IF t % 2 = 0 THEN XofWord(in, t \div 2) % 2^8 ELSE XofWord(in, t \div 2) \div 2^8

\* The sponge: what was written to it and how many bytes were read from it.
NewShake128 == [in |-> << >>, out |-> 0]
\* xof.Read(buf[:n]): the buffer and the sponge afterwards.
XofRead(xof, buf, n) ==
  [ buf |-> [b \in 1..Len(buf) |-> IF b <= n THEN XofByte(xof.in, xof.out + b - 1)
                                   ELSE buf[b]],
    xof |-> [xof EXCEPT !.out = @ + n] ]

\* extSeed of the cell <<i, j>> with the two index bytes as they are.
extSeed_NoSwap(seed, i, j, transposed) == <<seed, Byte(i), Byte(j)>>

\* extSeed, the seed followed by two index bytes (indcpa.go:73-79).
extSeed(seed, i, j, transposed) ==
  IF transposed THEN <<seed, Byte(i), Byte(j)>> ELSE <<seed, Byte(j), Byte(i)>>

\* A turn of the loop that refills the first block of the buffer and goes
\* on reading up to the end of the buffer.
genMatrixSample_KeepMaxPos(st) ==
  LET val == BitAnd(BitOr(st.buf[st.pos + 1], Shl(st.buf[st.pos + 2], 8, 16)), 8191)
      Refilled(t, r) ==
        IF t.pos = t.maxPos
        THEN [t EXCEPT !.buf = r.buf, !.xof = r.xof, !.pos = 0]
        ELSE t
      Moved(t) == Refilled(t, XofRead(t.xof, t.buf, shake128Rate))
  IN Moved(IF val < kyberQ
           THEN [st EXCEPT !.a[st.i + 1][st.j + 1][st.ctr + 1] = val,
                           !.ctr = @ + 1, !.pos = @ + 2]
           ELSE [st EXCEPT !.pos = @ + 2])

\* One turn of the sampling loop (indcpa.go:84-96).
genMatrixSample(st) ==
  LET val == BitAnd(BitOr(st.buf[st.pos + 1], Shl(st.buf[st.pos + 2], 8, 16)), 8191)
      Refilled(t, r) ==
        IF t.pos = t.maxPos
        THEN [t EXCEPT !.buf = r.buf, !.xof = r.xof, !.pos = 0, !.maxPos = shake128Rate]
        ELSE t
      Moved(t) == Refilled(t, XofRead(t.xof, t.buf, shake128Rate))
  IN Moved(IF val < kyberQ
           THEN [st EXCEPT !.a[st.i + 1][st.j + 1][st.ctr + 1] = val,
                           !.ctr = @ + 1, !.pos = @ + 2]
           ELSE [st EXCEPT !.pos = @ + 2])

\* genMatrix(a, seed, transposed) is entered, a being k vectors of k zeroed
\* polynomials; `first` holds the matrix of the call before, if any.
GenMatrixEntered(k, seed, transposed, first) ==
  [ op |-> "genMatrix", pc |-> "cell", k |-> k, seed |-> seed,
    transposed |-> transposed, first |-> first,
    a |-> [i \in 1..k |-> [j \in 1..k |-> [c \in 1..kyberN |-> 0]]],
    i |-> 0, j |-> 0, ctr |-> 0, pos |-> 0, maxPos |-> 0,
    buf |-> [b \in 1..(shake128Rate * maxBlocks) |-> 0],
    xof |-> NewShake128 ]

\* genMatrix is called: on a fresh matrix or, as indcpaEncrypt does after
\* indcpaKeyPair, on the same seed with the other value of `transposed`.
CallGenMatrix ==
  /\ \/ /\ ret.op = "none"
        /\ \E k \in 2..MatrixKMax, seed \in 0..(NSeeds - 1), transposed \in BOOLEAN :
             /\ (k > 2 => (seed = 0 /\ ~transposed))
             /\ ret' = GenMatrixEntered(k, seed, transposed, << >>)
     \/ /\ ret.op = "genMatrix"
        /\ ret.pc = "return"
        /\ ret.first = << >>
        /\ ret' = GenMatrixEntered(ret.k, ret.seed, ~ret.transposed, <<ret.a>>)
  /\ UNCHANGED <<keys, enc, sess, resp>>

\* xof.Write(extSeed[:]); xof.Read(buf[:]); ctr, pos, maxPos := 0, 0, len(buf)
GenMatrixSeedCell ==
  /\ ret.op = "genMatrix"
  /\ ret.pc = "cell"
  /\ LET Filled(r) ==
           [ret EXCEPT !.buf = r.buf, !.xof = r.xof, !.ctr = 0, !.pos = 0,
                       !.maxPos = Len(ret.buf), !.pc = "loop"]
         Written(xof) == Filled(XofRead(xof, ret.buf, Len(ret.buf)))
     IN ret' = Written([ret.xof EXCEPT
                          !.in = Append(@, extSeed(ret.seed, ret.i, ret.j, ret.transposed))])
  /\ UNCHANGED <<keys, enc, sess, resp>>

\* One turn of the loop; the loop is left when ctr = kyberN.
GenMatrixSample ==
  /\ ret.op = "genMatrix"
  /\ ret.pc = "loop"
  /\ LET After(st) == [st EXCEPT !.pc = IF st.ctr < kyberN THEN "loop" ELSE "reset"]
     IN ret' = After(genMatrixSample(ret))
  /\ UNCHANGED <<keys, enc, sess, resp>>

\* xof.Reset(), then the next cell of the row, the next row, or the return.
GenMatrixReset ==
  /\ ret.op = "genMatrix"
  /\ ret.pc = "reset"
  /\ ret' = [ret EXCEPT !.xof = NewShake128,
                        !.j = IF ret.j + 1 < ret.k THEN ret.j + 1 ELSE 0,
                        !.i = IF ret.j + 1 < ret.k THEN ret.i ELSE ret.i + 1,
                        !.pc = IF ret.j + 1 < ret.k \/ ret.i + 1 < ret.k
                               THEN "cell" ELSE "return"]
  /\ UNCHANGED <<keys, enc, sess, resp>>

NextMatrix ==
  \/ CallGenMatrix
  \/ GenMatrixSeedCell
  \/ GenMatrixSample
  \/ GenMatrixReset

SpecMatrix == Init /\ [][NextMatrix]_vars

(***************************************************************************)
(* Properties of genMatrix (specification SpecMatrix).                     *)
(***************************************************************************)
\* Stream bytes of the current cell that the loop has passed.
Consumed == ret.xof.out - ret.maxPos + ret.pos

\* The first n 13-bit candidates of the stream of `in`, and those below q.
Candidates(in, n) == [c \in 1..n |-> XofWord(in, c - 1) % 2^13]
AcceptedOf(cands) ==
  LET BelowQ(v) == v < kyberQ
  IN SelectSeq(cands, BelowQ)

\* C24: in every cell the loop reads the stream bytes in order, two at a
\* time, from the filled part of the buffer (all 672 bytes at first, the
\* first 168 after each further squeeze), it runs while fewer than 256
\* candidates were accepted, and when it ends the coefficients are the first
\* 256 candidates below q of the cell's stream, the last candidate read
\* being the 256th of them.
C24_RejectionSampling ==
  (ret.op = "genMatrix" /\ ret.pc \in {"loop", "reset"}) =>
    /\ ret.pc = "loop" <=> ret.ctr < kyberN
    /\ ret.xof.in = <<extSeed(ret.seed, ret.i, ret.j, ret.transposed)>>
    /\ ret.xof.out % shake128Rate = 0
    /\ ret.xof.out >= shake128Rate * maxBlocks
    /\ ret.maxPos = (IF ret.xof.out = shake128Rate * maxBlocks
                     THEN shake128Rate * maxBlocks ELSE shake128Rate)
    /\ ret.pos % 2 = 0
    /\ ret.pos + 2 <= ret.maxPos
    /\ ret.pc = "loop"
         => /\ ret.buf[ret.pos + 1] = XofByte(ret.xof.in, Consumed)
            /\ ret.buf[ret.pos + 2] = XofByte(ret.xof.in, Consumed + 1)
    /\ ret.pc = "reset"
         => LET cands == Candidates(ret.xof.in, Consumed \div 2)
            IN /\ AcceptedOf(cands) = ret.a[ret.i + 1][ret.j + 1]
               /\ cands[Len(cands)] < kyberQ

\* A cell is finished after the buffer was refilled at least twice, some of
\* the candidates having been refused.
C24_Witness ==
  /\ ret.op = "genMatrix"
  /\ ret.pc = "reset"
  /\ ret.xof.out >= shake128Rate * (maxBlocks + 2)
  /\ ret.ctr = kyberN
  /\ Consumed \div 2 > kyberN


\* The polynomial sampled from the stream of a sponge that absorbed the 34
\* bytes `ext` and nothing else.
CellOf(ext) == SubSeq(AcceptedOf(Candidates(<<ext>>, 3 * kyberN)), 1, kyberN)

\* C25: when genMatrix returns, cell <<i, j>> is the polynomial sampled from
\* the seed followed by the bytes (j, i), or (i, j) when transposed, and
\* from nothing else; the matrix generated from the same seed with the other
\* value of `transposed` is its transpose.
C25_TransposedIsTranspose ==
  (ret.op = "genMatrix" /\ ret.pc = "return") =>
    \A i, j \in 0..(ret.k - 1) :
      /\ ret.a[i + 1][j + 1] =
           CellOf(IF ret.transposed THEN <<ret.seed, i, j>> ELSE <<ret.seed, j, i>>)
      /\ ret.first # << >> => ret.a[i + 1][j + 1] = ret.first[1][j + 1][i + 1]

\* Both matrices of a seed were generated, the transposed one last, and the
\* matrix is not symmetric.
C25_Witness ==
  /\ ret.op = "genMatrix"
  /\ ret.pc = "return"
  /\ ret.first # << >>
  /\ ret.transposed
  /\ ret.a[1][2] # ret.a[2][1]
  /\ ret.a[1][2] = ret.first[1][2][1]


(***************************************************************************)
(* cbd.go, poly.go: the noise sampler (specification SpecNoise).           *)
(* A uint32 or uint64 of the sampler is the sequence of its bytes, least   *)
(* significant first (4 or 8 of them).                                     *)
(***************************************************************************)
\* x >> s
ShrW(x, s) ==
  LET q == s \div 8
      r == s % 8
      L(i) == IF i <= Len(x) THEN x[i] ELSE 0
  IN [i \in 1..Len(x) |-> (L(i + q) \div 2^r) + ((L(i + q + 1) % 2^r) * 2^(8 - r))]
\* x & m
AndW(x, m) == [i \in 1..Len(x) |-> BitAnd(x[i], m[i])]
\* x + y modulo 2^(8 * Len(x))
RECURSIVE CarryW(_, _, _)
CarryW(x, y, i) == IF i = 0 THEN 0 ELSE (x[i] + y[i] + CarryW(x, y, i - 1)) \div 2^8
AddW(x, y) == [i \in 1..Len(x) |-> (x[i] + y[i] + CarryW(x, y, i - 1)) % 2^8]
\* uint32(x), uint64(x): the w low bytes, zero-extended
ConvW(x, w) == [i \in 1..w |-> IF i <= Len(x) THEN x[i] ELSE 0]
\* The value of x, which has no more than 30 significant bits.
RECURSIVE NatW(_)
NatW(x) ==
  IF Len(x) = 0 \/ (\A i \in 1..Len(x) : x[i] = 0) THEN 0
  ELSE x[1] + 2^8 * NatW(Tail(x))

\* loadLittleEndian(x, bytes), x being buf[from:]
loadLittleEndian(buf, from, bytes) ==
  [i \in 1..8 |-> IF i <= bytes THEN buf[from + i] ELSE 0]

\* cbdRef with the two sums of a coefficient exchanged.
cbdRef_Exchanged(buf, eta) ==
  IF eta \notin {3, 4, 5} THEN [panic |-> "kyber: eta must be in {3,4,5}"]
  ELSE
  LET w == IF eta = 5 THEN 8 ELSE 4
      mask == CASE eta = 3 -> <<73, 146, 36, 0, 0, 0, 0, 0>>
                [] eta = 4 -> <<17, 17, 17, 17, 0, 0, 0, 0>>
                [] eta = 5 -> <<33, 132, 16, 66, 8, 0, 0, 0>>
      low == <<2^eta - 1, 0, 0, 0, 0, 0, 0, 0>>
      SumD(t, j) == ConvW(AndW(ShrW(t, j), mask), w)
      D(t) == CASE eta = 3 -> AddW(AddW(SumD(t, 0), SumD(t, 1)), SumD(t, 2))
                [] eta = 4 -> AddW(AddW(AddW(SumD(t, 0), SumD(t, 1)), SumD(t, 2)),
                                   SumD(t, 3))
                [] eta = 5 -> AddW(AddW(AddW(AddW(SumD(t, 0), SumD(t, 1)), SumD(t, 2)),
                                        SumD(t, 3)), SumD(t, 4))
      A(d, m) == NatW(AndW(ShrW(d, 2 * eta * m), low))
      B(d, m) == IF m < 3 THEN NatW(AndW(ShrW(d, 2 * eta * m + eta), low))
                 ELSE NatW(ShrW(d, 7 * eta))
      Four(d) == [m \in 1..4 |-> (B(d, m - 1) + kyberQ - A(d, m - 1)) % 2^16]
      Group(i) == Four(D(loadLittleEndian(buf, eta * i, eta)))
      Coeffs(g) == [c \in 1..kyberN |-> g[((c - 1) \div 4) + 1][((c - 1) % 4) + 1]]
  IN [panic |-> "nil", coeffs |-> Coeffs([i \in 1..(kyberN \div 4) |-> Group(i - 1)] \o << >>)]

\* cbdRef: the coefficients written to p, or the panic.  The sum
\* a + kyberQ - b is taken in uint32 (uint64 when eta = 5) and converted to
\* uint16, which keeps its 16 low bits.
cbdRef(buf, eta) ==
  IF eta \notin {3, 4, 5} THEN [panic |-> "kyber: eta must be in {3,4,5}"]
  ELSE
  LET w == IF eta = 5 THEN 8 ELSE 4
      mask == CASE eta = 3 -> <<73, 146, 36, 0, 0, 0, 0, 0>>
                [] eta = 4 -> <<17, 17, 17, 17, 0, 0, 0, 0>>
                [] eta = 5 -> <<33, 132, 16, 66, 8, 0, 0, 0>>
      low == <<2^eta - 1, 0, 0, 0, 0, 0, 0, 0>>
      SumD(t, j) == ConvW(AndW(ShrW(t, j), mask), w)
      D(t) == CASE eta = 3 -> AddW(AddW(SumD(t, 0), SumD(t, 1)), SumD(t, 2))
                [] eta = 4 -> AddW(AddW(AddW(SumD(t, 0), SumD(t, 1)), SumD(t, 2)),
                                   SumD(t, 3))
                [] eta = 5 -> AddW(AddW(AddW(AddW(SumD(t, 0), SumD(t, 1)), SumD(t, 2)),
                                        SumD(t, 3)), SumD(t, 4))
      A(d, m) == NatW(AndW(ShrW(d, 2 * eta * m), low))
      B(d, m) == IF m < 3 THEN NatW(AndW(ShrW(d, 2 * eta * m + eta), low))
                 ELSE NatW(ShrW(d, 7 * eta))
      Four(d) == [m \in 1..4 |-> (A(d, m - 1) + kyberQ - B(d, m - 1)) % 2^16]
      Group(i) == Four(D(loadLittleEndian(buf, eta * i, eta)))
      Coeffs(g) == [c \in 1..kyberN |-> g[((c - 1) \div 4) + 1][((c - 1) % 4) + 1]]
  IN [panic |-> "nil", coeffs |-> Coeffs([i \in 1..(kyberN \div 4) |-> Group(i - 1)] \o << >>)]

\* The output of SHAKE-256 is an input of the model: for each absorbed seed
\* and nonce a stream of bytes, among them the all-zero and the all-one
\* stream, the streams in which exactly the bits of the first, or of the
\* second, sum of every coefficient are set (for eta = 3, 4, 5), and streams
\* that run through all byte values.
NoisePatterns ==
  << <<0>>, <<255>>,
     <<199, 113, 28>>, <<56, 142, 227>>,
     <<15>>, <<240>>,
     <<31, 124, 240, 193, 7>>, <<224, 131, 15, 62, 248>> >>
ShakeSum256(n, ext) ==
  LET h == (ext[2] + 5 * ext[1]) % (Len(NoisePatterns) + 2)
      Pat(pat, t) == pat[(t % Len(pat)) + 1]
  IN [t \in 1..n |->
        IF h < Len(NoisePatterns) THEN Pat(NoisePatterns[h + 1], t - 1)
        ELSE ((t - 1) * (75 + 2 * h) + 74 * ext[1] + ext[2]) % 2^8]

\* poly.getNoise: the seed followed by the nonce is hashed into eta*kyberN/4
\* bytes, from which cbd samples the polynomial.
getNoise(seed, nonce, eta) ==
  cbdRef(ShakeSum256((eta * kyberN) \div 4, <<seed, nonce>>), eta)


\* Largest eta and number of nonces getNoise is called with on its own.
EtaMax == 6
NoiseNonces == 10

\* p.getNoise(seed, nonce, eta) on its own.
CallGetNoise ==
  /\ ret.op = "none"
  /\ \E seed \in 0..(NSeeds - 1), nonce \in 0..(NoiseNonces - 1), eta \in 2..EtaMax :
       LET Got(buf, r) ==
             ret' = [ op |-> "getNoise", seed |-> seed, nonce |-> nonce, eta |-> eta,
                      buf |-> buf, panic |-> r.panic,
                      coeffs |-> IF r.panic = "nil" THEN r.coeffs ELSE << >> ]
           From(buf) == Got(buf, cbdRef(buf, eta))
       IN From(ShakeSum256((eta * kyberN) \div 4, <<seed, nonce>>))
  /\ UNCHANGED <<keys, enc, sess, resp>>

\* A turn of a sampling loop that takes the nonce from the loop index.
noiseLoopTurn_NonceFromIndex(st, into) ==
  [st EXCEPT !.calls = Append(@, [ into |-> into, at |-> st.n, seed |-> st.seed,
                                    nonce |-> st.n, eta |-> st.p.eta,
                                    coeffs |-> getNoise(st.seed, st.n, st.p.eta).coeffs ]),
             !.nonce = (@ + 1) % 2^8,
             !.n = @ + 1]

\* A turn of `for _, pv := range v.vec { pv.getNoise(seed, nonce, p.eta);
\* nonce++ }`, nonce being a byte: the call is added to the record of the
\* getNoise calls made so far.
noiseLoopTurn(st, into) ==
  [st EXCEPT !.calls = Append(@, [ into |-> into, at |-> st.n, seed |-> st.seed,
                                    nonce |-> st.nonce, eta |-> st.p.eta,
                                    coeffs |-> getNoise(st.seed, st.nonce, st.p.eta).coeffs ]),
             !.nonce = (@ + 1) % 2^8,
             !.n = @ + 1]

\* indcpaKeyPair (with its noise seed) or indcpaEncrypt (with its coins)
\* reaches `var nonce byte`.
NoiseEntered ==
  /\ ret.op = "none"
  /\ \E op \in {"indcpaKeyPair", "indcpaEncrypt"}, p \in allParams, seed \in 0..(NSeeds - 1) :
       ret' = [ op |-> op, p |-> p, seed |-> seed, nonce |-> 0, n |-> 0,
                pc |-> IF op = "indcpaKeyPair" THEN "skpv" ELSE "sp", calls |-> << >> ]
  /\ UNCHANGED <<keys, enc, sess, resp>>

\* One turn of one of the loops over skpv and e, or sp and ep; after the last
\* turn of a loop the next loop begins, or the function goes on to its end.
NoiseLoopTurn ==
  /\ ret.op \in {"indcpaKeyPair", "indcpaEncrypt"}
  /\ ret.pc \in {"skpv", "e", "sp", "ep"}
  /\ LET After(st) ==
           IF st.n < st.p.k THEN st
           ELSE [st EXCEPT !.n = 0,
                           !.pc = CASE st.pc = "skpv" -> "e"
                                    [] st.pc = "e" -> "return"
                                    [] st.pc = "sp" -> "ep"
                                    [] st.pc = "ep" -> "epp"]
     IN ret' = After(noiseLoopTurn(ret, ret.pc))
  /\ UNCHANGED <<keys, enc, sess, resp>>

\* epp.getNoise(coins, nonce, p.eta), the nonce not being incremented.
NoiseLast ==
  /\ ret.op = "indcpaEncrypt"
  /\ ret.pc = "epp"
  /\ ret' = [ret EXCEPT !.calls = Append(@, [ into |-> "epp", at |-> 0, seed |-> ret.seed,
                                              nonce |-> ret.nonce, eta |-> ret.p.eta,
                                              coeffs |-> getNoise(ret.seed, ret.nonce,
                                                                  ret.p.eta).coeffs ]),
                        !.pc = "return"]
  /\ UNCHANGED <<keys, enc, sess, resp>>

NextNoise ==
  \/ CallGetNoise
  \/ NoiseEntered
  \/ NoiseLoopTurn
  \/ NoiseLast

SpecNoise == Init /\ [][NextNoise]_vars

(***************************************************************************)
(* Properties of the noise sampler (specification SpecNoise).              *)
(***************************************************************************)
\* C26: the nonce of the c-th getNoise call of indcpaKeyPair and of
\* indcpaEncrypt is c - 1, so that no nonce is used twice with one seed: in
\* indcpaKeyPair the polynomials of the secret vector take 0..k-1 and those
\* of the error vector k..2k-1; in indcpaEncrypt those of r take 0..k-1,
\* those of e1 k..2k-1 and e2 takes 2k.
C26_NoiseNonces ==
  ret.op \in {"indcpaKeyPair", "indcpaEncrypt"} =>
    LET k == ret.p.k
        first == IF ret.op = "indcpaKeyPair" THEN "skpv" ELSE "sp"
        second == IF ret.op = "indcpaKeyPair" THEN "e" ELSE "ep"
    IN /\ \A c \in 1..Len(ret.calls) :
            /\ ret.calls[c].nonce = c - 1
            /\ ret.calls[c].seed = ret.seed
            /\ ret.calls[c].eta = ret.p.eta
            /\ ret.calls[c].coeffs = getNoise(ret.seed, c - 1, ret.p.eta).coeffs
            /\ <<ret.calls[c].into, ret.calls[c].at>> =
                 (IF c <= k THEN <<first, c - 1>>
                  ELSE IF c <= 2 * k THEN <<second, c - 1 - k>>
                  ELSE <<"epp", 0>>)
       /\ ret.pc = "return"
            => Len(ret.calls) = (IF ret.op = "indcpaKeyPair" THEN 2 * k ELSE 2 * k + 1)

\* indcpaEncrypt of Kyber-1024 has sampled e2 with nonce 8, and
\* indcpaKeyPair of Kyber-512 its last error polynomial with nonce 3.
C26_Witness ==
  /\ ret.op \in {"indcpaKeyPair", "indcpaEncrypt"}
  /\ ret.pc = "return"
  /\ \/ /\ ret.op = "indcpaEncrypt"
        /\ ret.p.k = 4
        /\ ret.calls[9].nonce = 8
        /\ ret.calls[9].into = "epp"
        /\ ret.calls[5].into = "ep"
     \/ /\ ret.op = "indcpaKeyPair"
        /\ ret.p.k = 2
        /\ ret.calls[4].nonce = 3
        /\ ret.calls[4].into = "e"

\* Bit n of the buffer, and the number of one bits among bits lo..hi-1.
BitOf(buf, n) == (buf[(n \div 8) + 1] \div 2^(n % 8)) % 2
OnesIn(buf, lo, hi) == Cardinality({n \in lo..(hi - 1) : BitOf(buf, n) = 1})

\* C27: for eta in {3, 4, 5}, cbd sets coefficient 4i+m to q + a - b, a
\* being the number of one bits among the first eta and b among the last eta
\* of the 2*eta bits that begin at bit 2*eta*m of the little-endian word of
\* bytes eta*i .. eta*i+eta-1; so every coefficient lies in q-eta .. q+eta.
\* For any other eta it panics.
C27_CenteredBinomial ==
  ret.op = "getNoise" =>
    IF ret.eta \in {3, 4, 5}
    THEN /\ ret.panic = "nil"
         /\ Len(ret.coeffs) = kyberN
         /\ \A i \in 0..((kyberN \div 4) - 1), m \in 0..3 :
              LET at == 8 * ret.eta * i + 2 * ret.eta * m
                  a == OnesIn(ret.buf, at, at + ret.eta)
                  b == OnesIn(ret.buf, at + ret.eta, at + 2 * ret.eta)
              IN /\ ret.coeffs[4 * i + m + 1] = kyberQ + a - b
                 /\ ret.coeffs[4 * i + m + 1] \in (kyberQ - ret.eta)..(kyberQ + ret.eta)
    ELSE ret.panic = "kyber: eta must be in {3,4,5}"

\* A polynomial sampled with eta = 5 from a buffer that is neither all
\* zeros nor all ones, with a coefficient at each end of the range.
C27_Witness ==
  /\ ret.op = "getNoise"
  /\ ret.eta = 5
  /\ ret.panic = "nil"
  /\ \E c, d \in 1..kyberN :
       /\ ret.coeffs[c] >= kyberQ + 4
       /\ ret.coeffs[d] < kyberQ


(***************************************************************************)
(* ntt.go: nttRef and invnttRef (specification SpecNTT), followed          *)
(* butterfly by butterfly.  `ret` holds the coefficients, the loop         *)
(* variables, and what the last butterfly read and wrote.                  *)
(***************************************************************************)
\* Number of coefficient vectors and of twiddle tables the transforms are
\* run on.
NttInputs == 3
NttTables == 2

\* The twiddle tables zetas, omegasInvBitrevMontgomery and psisInvMontgomery
\* are 256 values below q each; the values are an input of the model.
zetas(tbl, k) == (k * 2741 + 990 + 17 * tbl) % kyberQ
omegasInvBitrevMontgomery(tbl, k) == (k * 3313 + 990 + 29 * tbl) % kyberQ
psisInvMontgomery(tbl, k) == (k * 1531 + 1024 + 31 * tbl) % kyberQ

\* Coefficient vectors: sampled noise (q-5 .. q+5), canonical values
\* (0 .. q-1), and values up to 2q-1.
NttInput(n) ==
  [c \in 1..kyberN |->
     CASE n % 3 = 0 -> kyberQ - 5 + ((c * 7 + n) % 11)
       [] n % 3 = 1 -> (c * 1237 + 5 + n) % kyberQ
       [] n % 3 = 2 -> (c * 911 + n) % (2 * kyberQ)]

\* uint32(x) + 4*kyberQ - uint32(y) for uint16 x and y, as a uint32.
Sub32(x, y) ==
  LET v == x + 4 * kyberQ - y
  IN IF v < 0 THEN <<2^16 - 1, v + 2^16>> ELSE <<v \div 2^16, v % 2^16>>

\* The body of the innermost loop of nttRef followed by the loop headers
\* that run before the next butterfly (part_000:133-149): p, level, start,
\* j, k and zeta afterwards.
nttButterfly(st) ==
  LET distance == 2^st.level
      x == st.p[st.j + 1]
      y == st.p[st.j + distance + 1]
      Wrote(t) ==
        [st EXCEPT !.p = [@ EXCEPT ![st.j + distance + 1] =
                                      barrettReduce((x + 4 * kyberQ + 2^16 - t) % 2^16),
                                   ![st.j + 1] =
                                      IF st.level % 2 = 1 THEN (x + t) % 2^16
                                      ELSE barrettReduce((x + t) % 2^16)],
                   !.last = [level |-> st.level, j |-> st.j, x |-> x, y |-> y, t |-> t],
                   !.j = @ + 1]
      NextBlock(u) == [u EXCEPT !.zeta = zetas(u.tbl, u.k), !.k = @ + 1, !.j = u.start]
      Headers(u) ==
        IF u.j < u.start + distance THEN u
        ELSE IF u.j + distance < kyberN
        THEN NextBlock([u EXCEPT !.start = u.j + distance])
        ELSE IF u.level > 0
        THEN NextBlock([u EXCEPT !.level = @ - 1, !.start = 0])
        ELSE [u EXCEPT !.pc = "return"]
  IN Headers(Wrote(montgomeryReduce(Mul32(<<0, y>>, st.zeta))))

\* invnttRef's butterfly with the reduction at the even levels.
invnttButterfly_ReduceEven(st) ==
  LET distance == 2^st.level
      temp == st.p[st.j + 1]
      y == st.p[st.j + distance + 1]
      w == omegasInvBitrevMontgomery(st.tbl, st.jTwiddle)
      Wrote(t) ==
        [st EXCEPT !.p = [@ EXCEPT ![st.j + 1] =
                                      IF st.level % 2 = 0
                                      THEN barrettReduce((temp + y) % 2^16)
                                      ELSE (temp + y) % 2^16,
                                   ![st.j + distance + 1] = montgomeryReduce(t)],
                   !.last = [level |-> st.level, j |-> st.j, x |-> temp, y |-> y, t |-> t],
                   !.jTwiddle = @ + 1,
                   !.j = @ + 2 * distance]
      Headers(u) ==
        IF u.j < kyberN - 1 THEN u
        ELSE IF u.start + 1 < distance
        THEN [u EXCEPT !.start = @ + 1, !.jTwiddle = 0, !.j = u.start + 1]
        ELSE IF u.level + 1 < 8
        THEN [u EXCEPT !.level = @ + 1, !.start = 0, !.jTwiddle = 0, !.j = 0]
        ELSE [u EXCEPT !.pc = "twist"]
  IN Headers(Wrote(Mul32(Sub32(temp, y), w)))

\* The body of the innermost loop of invnttRef followed by the loop headers
\* that run before the next butterfly (part_000:156-176).
invnttButterfly(st) ==
  LET distance == 2^st.level
      temp == st.p[st.j + 1]
      y == st.p[st.j + distance + 1]
      w == omegasInvBitrevMontgomery(st.tbl, st.jTwiddle)
      Wrote(t) ==
        [st EXCEPT !.p = [@ EXCEPT ![st.j + 1] =
                                      IF st.level % 2 = 1
                                      THEN barrettReduce((temp + y) % 2^16)
                                      ELSE (temp + y) % 2^16,
                                   ![st.j + distance + 1] = montgomeryReduce(t)],
                   !.last = [level |-> st.level, j |-> st.j, x |-> temp, y |-> y, t |-> t],
                   !.jTwiddle = @ + 1,
                   !.j = @ + 2 * distance]
      Headers(u) ==
        IF u.j < kyberN - 1 THEN u
        ELSE IF u.start + 1 < distance
        THEN [u EXCEPT !.start = @ + 1, !.jTwiddle = 0, !.j = u.start + 1]
        ELSE IF u.level + 1 < 8
        THEN [u EXCEPT !.level = @ + 1, !.start = 0, !.jTwiddle = 0, !.j = 0]
        ELSE [u EXCEPT !.pc = "twist"]
  IN Headers(Wrote(Mul32(Sub32(temp, y), w)))

\* nttRef(p) or invnttRef(a) is called and reaches its first butterfly.
CallNtt ==
  /\ ret.op = "none"
  /\ \E n \in 0..(NttInputs - 1), tbl \in 0..(NttTables - 1) :
       \/ ret' = [ op |-> "nttRef", pc |-> "butterfly", tbl |-> tbl, p |-> NttInput(n),
                   level |-> 7, start |-> 0, j |-> 0, k |-> 2, zeta |-> zetas(tbl, 1),
                   last |-> << >> ]
       \/ ret' = [ op |-> "invnttRef", pc |-> "butterfly", tbl |-> tbl, p |-> NttInput(n),
                   level |-> 0, start |-> 0, j |-> 0, jTwiddle |-> 0,
                   last |-> << >> ]
  /\ UNCHANGED <<keys, enc, sess, resp>>

NttButterfly ==
  /\ ret.op = "nttRef"
  /\ ret.pc = "butterfly"
  /\ ret' = nttButterfly(ret)
  /\ UNCHANGED <<keys, enc, sess, resp>>

InvnttButterfly ==
  /\ ret.op = "invnttRef"
  /\ ret.pc = "butterfly"
  /\ ret' = invnttButterfly(ret)
  /\ UNCHANGED <<keys, enc, sess, resp>>

\* for i, v := range psisInvMontgomery { a[i] = montgomeryReduce(a[i] * v) }
InvnttTwist ==
  /\ ret.op = "invnttRef"
  /\ ret.pc = "twist"
  /\ ret' = [ret EXCEPT
               !.p = [c \in 1..kyberN |->
                        montgomeryReduce(Mul32(<<0, ret.p[c]>>,
                                               psisInvMontgomery(ret.tbl, c - 1)))],
               !.pc = "return"]
  /\ UNCHANGED <<keys, enc, sess, resp>>

NextNTT ==
  \/ CallNtt
  \/ NttButterfly
  \/ InvnttButterfly
  \/ InvnttTwist

SpecNTT == Init /\ [][NextNTT]_vars

(***************************************************************************)
(* Properties of the transforms (specification SpecNTT).                   *)
(***************************************************************************)
\* The last step was a butterfly of `op`.
ButterflyOf(op) ==
  /\ ret.op = op
  /\ ret.last # << >>
  /\ op = "invnttRef" => ret.pc # "return"
\* The sum a butterfly forms in uint16: p[j] + t in nttRef, temp +
\* a[j+distance] in invnttRef.
SumOfLast ==
  IF ret.op = "nttRef" THEN (ret.last.x + ret.last.t) % 2^16
  ELSE (ret.last.x + ret.last.y) % 2^16

\* C28 as stated: in nttRef and in invnttRef, the sum written by a butterfly
\* is the unreduced sum at the odd levels and the Barrett-reduced sum at the
\* even levels.
C28_AsStated ==
  (ButterflyOf("nttRef") \/ ButterflyOf("invnttRef")) =>
     ret.p[ret.last.j + 1] =
       (IF ret.last.level % 2 = 1 THEN SumOfLast ELSE barrettReduce(SumOfLast))

\* C28, amended: in nttRef the sum written by a butterfly is the unreduced
\* sum at the odd levels and the Barrett-reduced sum at the even levels; in
\* invnttRef it is the Barrett-reduced sum at the odd levels and the
\* unreduced sum at the even levels.
C28_ReductionSchedule ==
  /\ ButterflyOf("nttRef") =>
       ret.p[ret.last.j + 1] =
         (IF ret.last.level % 2 = 1 THEN SumOfLast ELSE barrettReduce(SumOfLast))
  /\ ButterflyOf("invnttRef") =>
       ret.p[ret.last.j + 1] =
         (IF ret.last.level % 2 = 1 THEN barrettReduce(SumOfLast) ELSE SumOfLast)

\* A butterfly of invnttRef at an odd level has written a reduced sum that
\* differs from the unreduced one.
C28_Witness ==
  /\ ButterflyOf("invnttRef")
  /\ ret.last.level % 2 = 1
  /\ barrettReduce(SumOfLast) # SumOfLast
  /\ ret.p[ret.last.j + 1] = barrettReduce(SumOfLast)


(***************************************************************************)
(* The Montgomery constant (specification SpecReduce).                     *)
(***************************************************************************)
\* a + u * q of the last montgomeryReduce call, u being (a * qinv) & (R - 1).
MontSum ==
  Add32(ret.a, Mul32(And32(Mul32(ret.a, qinv), <<2^(rlog - 16) - 1, 2^16 - 1>>), kyberQ))

\* C29 as stated: the constant qinv that montgomeryReduce multiplies by is
\* the inverse of q modulo 2^18, qinv * q being congruent to 1.
C29_AsStated == ret.op = "montgomeryReduce" => (qinv * kyberQ) % 2^rlog = 1

\* C29, amended: qinv * q is congruent to -1 modulo 2^18, qinv being the
\* negated inverse of q; therefore the rlog low bits of a + u * q are zero in
\* every call of montgomeryReduce, whose result is that sum divided by R.
C29_QinvNegatedInverse ==
  /\ (qinv * kyberQ) % 2^rlog = 2^rlog - 1
  /\ (qinv * kyberQ + 1) % 2^rlog = 0
  /\ ret.op = "montgomeryReduce"
       => /\ And32(MontSum, <<2^(rlog - 16) - 1, 2^16 - 1>>) = <<0, 0>>
          /\ MontSum = <<(4 * ret.r) % 2^16, 0>>

\* montgomeryReduce was given an odd word, to which an odd multiple of q
\* had to be added.
C29_Witness ==
  /\ ret.op = "montgomeryReduce"
  /\ ret.a[2] % 2 = 1
  /\ ret.a # MontSum
  /\ MontSum[2] = 0


(***************************************************************************)
(* hwaccel.go, hwaccel_ref.go: the selection of the back-end               *)
(* (specification SpecHwaccel).  `ret` holds the two package variables,    *)
(* the build (with or without an accelerated back-end), whether the host   *)
(* supports the accelerated back-end, and the calls made so far.           *)
(***************************************************************************)
\* Longest sequence of calls made after the package was initialised.
HwCalls == 5

\* var ( isHardwareAccelerated = false; hardwareAccelImpl = implReference )
PackageVars(build, supported) ==
  [ build |-> build, supported |-> supported,
    isHardwareAccelerated |-> FALSE, hardwareAccelImpl |-> "Reference" ]

\* forceDisableHardwareAcceleration that clears the flag only.
forceDisableHardwareAcceleration_FlagOnly(st) ==
  [st EXCEPT !.isHardwareAccelerated = FALSE]

\* forceDisableHardwareAcceleration
forceDisableHardwareAcceleration(st) ==
  [st EXCEPT !.isHardwareAccelerated = FALSE, !.hardwareAccelImpl = "Reference"]

\* initHardwareAcceleration of the build with an accelerated back-end: it
\* selects that back-end, and sets the flag, when the host supports it.
initHardwareAcceleration_amd64(st) ==
  IF st.supported
  THEN [st EXCEPT !.isHardwareAccelerated = TRUE, !.hardwareAccelImpl = "AVX2"]
  ELSE st

\* initHardwareAcceleration of the build without an accelerated back-end
\* (hwaccel_ref.go).
initHardwareAcceleration_ref(st) == forceDisableHardwareAcceleration(st)

\* initHardwareAcceleration, as the build provides it.
initHardwareAcceleration(st) ==
  IF st.build = "reference" THEN initHardwareAcceleration_ref(st)
  ELSE initHardwareAcceleration_amd64(st)

\* IsHardwareAccelerated()
IsHardwareAccelerated(st) == st.isHardwareAccelerated

\* The state after a call: the package variables, the call, its answer, and
\* the calls made so far.
HwCalled(op, st, answer) ==
  [ op |-> op, build |-> st.build, supported |-> st.supported,
    isHardwareAccelerated |-> st.isHardwareAccelerated,
    hardwareAccelImpl |-> st.hardwareAccelImpl,
    answer |-> answer,
    calls |-> IF op = "init" THEN << >> ELSE Append(ret.calls, op) ]

\* The package is loaded: its variables are initialised and init() runs.
PackageInit ==
  /\ ret.op = "none"
  /\ \E build \in {"reference", "accelerated"}, supported \in BOOLEAN :
       /\ (build = "reference" => ~supported)
       /\ ret' = HwCalled("init", initHardwareAcceleration(PackageVars(build, supported)),
                          FALSE)
  /\ UNCHANGED <<keys, enc, sess, resp>>

HwLoaded == "hardwareAccelImpl" \in DOMAIN ret

CallForceDisableHardwareAcceleration ==
  /\ HwLoaded
  /\ Len(ret.calls) < HwCalls
  /\ ret' = HwCalled("forceDisableHardwareAcceleration",
                     forceDisableHardwareAcceleration(ret), FALSE)
  /\ UNCHANGED <<keys, enc, sess, resp>>

CallInitHardwareAcceleration ==
  /\ HwLoaded
  /\ Len(ret.calls) < HwCalls
  /\ ret' = HwCalled("initHardwareAcceleration", initHardwareAcceleration(ret), FALSE)
  /\ UNCHANGED <<keys, enc, sess, resp>>

CallIsHardwareAccelerated ==
  /\ HwLoaded
  /\ Len(ret.calls) < HwCalls
  /\ ret' = HwCalled("IsHardwareAccelerated", ret, IsHardwareAccelerated(ret))
  /\ UNCHANGED <<keys, enc, sess, resp>>

NextHwaccel ==
  \/ PackageInit
  \/ CallForceDisableHardwareAcceleration
  \/ CallInitHardwareAcceleration
  \/ CallIsHardwareAccelerated

SpecHwaccel == Init /\ [][NextHwaccel]_vars

\* C30: after the package is initialised and after any sequence of
\* forceDisableHardwareAcceleration and initHardwareAcceleration calls,
\* IsHardwareAccelerated() is false exactly when hardwareAccelImpl is the
\* reference implementation; forceDisableHardwareAcceleration always leaves
\* the reference implementation selected; and in the build without an
\* accelerated back-end the flag is always false.
C30_FlagMatchesBackend ==
  HwLoaded =>
    /\ IsHardwareAccelerated(ret) = FALSE <=> ret.hardwareAccelImpl = "Reference"
    /\ ret.op = "IsHardwareAccelerated"
         => (ret.answer = FALSE <=> ret.hardwareAccelImpl = "Reference")
    /\ ret.op = "forceDisableHardwareAcceleration"
         => (ret.hardwareAccelImpl = "Reference" /\ ~IsHardwareAccelerated(ret))
    /\ ret.build = "reference" => ~IsHardwareAccelerated(ret)

\* In the build with an accelerated back-end, on a host that supports it,
\* the back-end was disabled after it had been selected.
C30_Witness ==
  /\ HwLoaded
  /\ ret.build = "accelerated"
  /\ ret.supported
  /\ ret.op = "forceDisableHardwareAcceleration"
  /\ Len(ret.calls) >= 3
  /\ ret.calls[Len(ret.calls) - 1] = "initHardwareAcceleration"
  /\ ret.hardwareAccelImpl = "Reference"
  /\ ~ret.isHardwareAccelerated

====
